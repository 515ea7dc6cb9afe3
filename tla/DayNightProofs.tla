-------------------------- MODULE DayNightProofs ---------------------------
(***************************************************************************)
(* For every zone and every course of the sun in which the sun of a date   *)
(* rises on that local date: the due instants advance, and, where it also  *)
(* sets on it, the mode is the one of a restart.                           *)
(***************************************************************************)
EXTENDS DayNight, ClockProofs

\* The zone fits the longitude: where there is a sunrise, it is on its date.
SunRises ==
    \A date \in Int :
        \/ SunOn(date) = NoSun
        \/ /\ SunOn(date) \in [rise : Int, set : Int]
           /\ SunOn(date).rise < SunOn(date).set
           /\ LocalDate(SunOn(date).rise) = date

\* The sun sets before midnight (not so in Reykjavik in June).
SunSets ==
    \A date \in Int : SunOn(date) # NoSun => LocalDate(SunOn(date).set) = date

\* What is armed is after the instant it is armed from.
LEMMA DueLater ==
    ASSUME zone \in Zones, SunRises, NEW t \in Int
    PROVE  NextDue(t) \in Int /\ NextDue(t) > t
<1>1. PICK date \in Int : date = LocalDate(t)
    BY LocalDateFacts
<1>2. PICK midnight \in Int : midnight = NextLocalMidnight(t) /\ midnight > t
    <2>1. NextLocalMidnight(t) \in Int
        BY ZoneFacts, LocalDateFacts DEF NextLocalMidnight, ResolveLocal
    <2> QED BY <2>1, MidnightEndsEveryDay DEF MidnightEndsTheDay
<1>3. ASSUME SunOn(date + 1) # NoSun
      PROVE  SunOn(date + 1).rise \in Int /\ SunOn(date + 1).rise > t
    <2>1. SunOn(date + 1).rise \in Int /\ LocalDate(SunOn(date + 1).rise) = date + 1
        BY <1>3 DEF SunRises
    <2> QED BY <1>1, <2>1, LocalDateMonotone
<1>4. CASE SunOn(date) = NoSun
    BY <1>1, <1>2, <1>4 DEF NextDue
<1>5. CASE SunOn(date) # NoSun
    <2>1. PICK rise \in Int, set \in Int : SunOn(date).rise = rise /\ SunOn(date).set = set
        BY <1>5 DEF SunRises
    <2>2. NextDue(t) = CASE t < rise -> rise
                         [] t >= rise /\ t < set -> set
                         [] t >= rise /\ t >= set ->
                              IF SunOn(date + 1) = NoSun THEN midnight
                              ELSE SunOn(date + 1).rise
        BY <1>1, <1>2, <1>5, <2>1 DEF NextDue, NextEventAfter
    <2>3. CASE t < rise
        BY <2>2, <2>3
    <2>4. CASE t >= rise /\ t < set
        BY <2>2, <2>4
    <2>5. CASE t >= rise /\ t >= set
        BY <1>2, <1>3, <2>2, <2>5
    <2> QED BY <2>3, <2>4, <2>5
<1> QED BY <1>4, <1>5

\* The mode does not change before the due instant.
LEMMA StableUntilDue ==
    ASSUME zone \in Zones, SunRises, SunSets, NEW t \in Int, NEW u \in Int,
           t <= u, u < NextDue(t)
    PROVE  ModeAt(u) = ModeAt(t)
<1>1. PICK date \in Int, later \in Int : date = LocalDate(t) /\ later = LocalDate(u)
    BY LocalDateFacts
<1>2. date <= later
    BY <1>1, LocalDateMonotone
<1>3. PICK midnight \in Int :
          /\ midnight = NextLocalMidnight(t)
          /\ \A v \in t..(midnight - 1) : LocalDate(v) = date
    <2>1. NextLocalMidnight(t) \in Int
        BY ZoneFacts, LocalDateFacts DEF NextLocalMidnight, ResolveLocal
    <2> QED BY <1>1, <2>1, MidnightEndsEveryDay DEF MidnightEndsTheDay
<1>4. CASE SunOn(date) = NoSun
    <2>1. later = date
        BY <1>1, <1>3, <1>4 DEF NextDue
    <2> QED BY <1>1, <1>4, <2>1 DEF ModeAt
<1>5. CASE SunOn(date) # NoSun
    <2>1. PICK rise \in Int, set \in Int :
              /\ SunOn(date).rise = rise /\ SunOn(date).set = set /\ rise < set
              /\ LocalDate(rise) = date /\ LocalDate(set) = date
        BY <1>5 DEF SunRises, SunSets
    <2>2. NextDue(t) = CASE t < rise -> rise
                         [] t >= rise /\ t < set -> set
                         [] t >= rise /\ t >= set ->
                              IF SunOn(date + 1) = NoSun THEN midnight
                              ELSE SunOn(date + 1).rise
        BY <1>1, <1>3, <1>5, <2>1 DEF NextDue, NextEventAfter
    <2>3. CASE t < rise
        <3>1. u < rise
            BY <2>2, <2>3
        <3>2. later <= date
            BY <1>1, <2>1, <3>1, LocalDateMonotone
        <3> QED BY <1>1, <1>2, <2>1, <2>3, <3>1, <3>2 DEF ModeAt
    <2>4. CASE t >= rise /\ t < set
        <3>1. u < set
            BY <2>2, <2>4
        <3>2. later <= date
            BY <1>1, <2>1, <3>1, LocalDateMonotone
        <3> QED BY <1>1, <1>2, <2>1, <2>4, <3>1, <3>2 DEF ModeAt
    <2>5. CASE t >= rise /\ t >= set
        <3>1. ModeAt(t) = "Night"
            BY <1>1, <1>5, <2>1, <2>5 DEF ModeAt
        <3>2. CASE later = date
            BY <1>1, <2>1, <2>5, <3>1, <3>2 DEF ModeAt
        <3>3. CASE later # date
            <4>1. SunOn(date + 1) # NoSun /\ u < SunOn(date + 1).rise
                BY <1>1, <1>3, <2>2, <2>5, <3>3
            <4>2. SunOn(date + 1).rise \in Int /\ LocalDate(SunOn(date + 1).rise) = date + 1
                BY <4>1 DEF SunRises
            <4>3. later <= date + 1
                BY <1>1, <4>1, <4>2, LocalDateMonotone
            <4>4. later = date + 1
                BY <1>2, <3>3, <4>3
            <4> QED BY <1>1, <3>1, <4>1, <4>2, <4>4 DEF ModeAt
        <3> QED BY <3>2, <3>3
    <2> QED BY <2>3, <2>4, <2>5
<1> QED BY <1>4, <1>5

---------------------------------------------------------------------------
(* The job. *)

\* The inductive form, as EnergySavingProofs has it.
JobInv ==
    /\ TypeOK
    /\ Timing
    /\ SunRises
    /\ \E f \in Int : fired = f /\ (stage # "ended" => fireAt = NextDue(f))
    /\ \E x \in Int : ReadAt(x) /\ mode = ModeAt(x)

LEMMA ModeType ==
    ASSUME NEW t
    PROVE  ModeAt(t) \in {"Day", "Night"}
BY DEF ModeAt

LEMMA JobInit ==
    Init /\ SunRises => JobInv
<1> SUFFICES ASSUME Init, SunRises PROVE JobInv
    OBVIOUS
<1>1. now \in Int /\ zone \in Zones /\ sun \in Suns
    BY SchedulerAssumption DEF Init
<1>2. NextDue(now) \in Int /\ NextDue(now) > now
    BY <1>1, DueLater
<1>3. SchedulerTypeOK /\ Timing /\ ReadAt(now)
    BY <1>1, <1>2, ScheduleFacts DEF Init
<1>4. mode = ModeAt(now) /\ mode \in {"Day", "Night"}
    BY ModeType DEF Init
<1>5. fired = now /\ fireAt = NextDue(now)
    BY DEF Init, ScheduleAt
<1> QED
    BY <1>1, <1>3, <1>4, <1>5 DEF JobInv, TypeOK

\* The place is fixed, and with it what is derived from it.
LEMMA PlaceFixed ==
    ASSUME UNCHANGED placeVars
    PROVE  /\ \A x \in Int : ModeAt(x)' = ModeAt(x) /\ NextDue(x)' = NextDue(x)
           /\ SunRises => SunRises'
           /\ SunSets => SunSets'
<1> USE DEF placeVars, SunOn, LocalDate, Offset
<1>1. ASSUME NEW x \in Int PROVE ModeAt(x)' = ModeAt(x)
    BY DEF ModeAt
<1>2. ASSUME NEW x \in Int PROVE NextDue(x)' = NextDue(x)
    BY DEF NextDue, NextEventAfter, NextLocalMidnight, ResolveLocal
<1>3. SunRises => SunRises'
    BY DEF SunRises
<1>4. SunSets => SunSets'
    BY DEF SunSets
<1> QED BY <1>1, <1>2, <1>3, <1>4

LEMMA JobStep ==
    JobInv /\ [Next]_vars => JobInv'
<1> SUFFICES ASSUME JobInv, [Next]_vars PROVE JobInv'
    OBVIOUS
<1>1. SchedulerTypeOK /\ Timing /\ zone \in Zones /\ SunRises
    BY DEF JobInv, TypeOK
<1>2. PICK f \in Int : fired = f /\ (stage # "ended" => fireAt = NextDue(f))
    BY DEF JobInv
<1>3. PICK x \in Int : ReadAt(x) /\ mode = ModeAt(x)
    BY DEF JobInv
<1>4. UNCHANGED placeVars
    BY DEF Next, Transition, Reschedule, Environment, vars
<1>5. zone' \in Zones /\ sun' \in Suns /\ SunRises'
    BY <1>1, <1>4, PlaceFixed DEF JobInv, TypeOK, placeVars
<1>6. CASE Transition
    <2>1. PICK y \in Int : y = Later(now, fireAt)
        BY <1>1, <1>6, FireFacts DEF Transition
    <2>2. /\ SchedulerTypeOK' /\ Timing' /\ ReadAt(y)'
          /\ fireAt' = fireAt /\ fired' = fired
        BY <1>1, <1>6, <2>1, FireFacts DEF Transition
    <2>3. mode' = ModeAt(y) /\ mode' \in {"Day", "Night"}
        BY <1>6, <2>1, ModeType DEF Transition
    <2>4. stage # "ended"
        BY <1>6 DEF Transition, Fire
    <2>5. ModeAt(y)' = ModeAt(y) /\ NextDue(f)' = NextDue(f)
        BY <1>4, PlaceFixed
    <2> QED BY <1>2, <1>5, <2>2, <2>3, <2>4, <2>5 DEF JobInv, TypeOK
<1>7. CASE Reschedule
    <2>1. PICK g \in Int : g = fireAt
        BY <1>1 DEF SchedulerTypeOK
    <2>2. NextDue(g) \in Int /\ NextDue(g) > fireAt /\ Rearm(NextDue(g))
        BY <1>1, <1>7, <2>1, DueLater DEF Reschedule
    <2>3. /\ SchedulerTypeOK' /\ Timing' /\ ReadAt(x)'
          /\ fireAt' = NextDue(g) /\ fired' = g
        BY <1>1, <1>3, <2>1, <2>2, RearmFacts
    <2>4. mode' = mode
        BY <1>7 DEF Reschedule
    <2>5. ModeAt(x)' = ModeAt(x) /\ NextDue(g)' = NextDue(g)
        BY <1>4, PlaceFixed
    <2> QED BY <1>3, <1>5, <2>3, <2>4, <2>5 DEF JobInv, TypeOK
<1>8. CASE Environment
    <2>1. /\ SchedulerTypeOK' /\ Timing' /\ ReadAt(x)'
          /\ fireAt' = fireAt /\ fired' = fired
          /\ stage' = "ended" \/ stage' = stage
        BY <1>1, <1>3, <1>8, AroundFacts DEF Environment
    <2>2. mode' = mode
        BY <1>8 DEF Environment
    <2>3. ModeAt(x)' = ModeAt(x) /\ NextDue(f)' = NextDue(f)
        BY <1>4, PlaceFixed
    <2> QED BY <1>2, <1>3, <1>5, <2>1, <2>2, <2>3 DEF JobInv, TypeOK
<1>9. CASE UNCHANGED vars
    <2>1. ModeAt(x)' = ModeAt(x) /\ NextDue(f)' = NextDue(f)
        BY <1>4, PlaceFixed
    <2> QED
        BY <1>1, <1>2, <1>3, <1>5, <1>9, <2>1
        DEF JobInv, TypeOK, SchedulerTypeOK, Timing, ReadAt, vars, schedulerVars,
            clockVars, jobVars
<1> QED
    BY <1>6, <1>7, <1>8, <1>9 DEF Next

\* Where the zone fits the longitude, each due instant is after the one before
\* it, through days without sun and changes of the zone's offset.
THEOREM SunEventsAdvance ==
    Spec /\ SunRises => DueAdvances
<1>1. JobInv /\ [Next]_vars => [Reschedule => fireAt' > fireAt]_vars
    BY DueLater DEF JobInv, TypeOK, SchedulerTypeOK, Reschedule, Rearm
<1> QED
    BY <1>1, JobInit, JobStep, PTL DEF Spec, DueAdvances

\* ... and where the sun also sets before midnight, a controller that runs has
\* the mode that one started now would derive.
THEOREM ModeAgreesWithRestart ==
    Spec /\ SunRises /\ SunSets => []AgreesWithRestart
<1>1. JobInv /\ SunSets => AgreesWithRestart
    <2> SUFFICES ASSUME JobInv, SunSets, late = 0 \/ steps = 0, stage = "sleep",
                        fired <= now, now < fireAt
                 PROVE  mode = ModeAt(now)
        BY DEF AgreesWithRestart
    <2>1. now \in Int /\ fired \in Int /\ zone \in Zones /\ SunRises
        BY DEF JobInv, TypeOK, SchedulerTypeOK
    <2>2. PICK x \in Int : ReadAt(x) /\ mode = ModeAt(x)
        BY DEF JobInv
    <2>3. fired <= x /\ x <= now
        BY <2>1, <2>2 DEF ReadAt
    <2>4. fireAt = NextDue(fired) /\ fireAt \in Int
        BY DEF JobInv, TypeOK, SchedulerTypeOK
    <2>5. ModeAt(now) = ModeAt(fired) /\ ModeAt(x) = ModeAt(fired)
        BY <2>1, <2>3, <2>4, StableUntilDue
    <2> QED BY <2>2, <2>5
<1>2. SunSets /\ [Next]_vars => SunSets'
    BY PlaceFixed DEF Next, Transition, Reschedule, Environment, vars
<1> QED
    BY <1>1, <1>2, JobInit, JobStep, PTL DEF Spec
=============================================================================
