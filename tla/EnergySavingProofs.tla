------------------------ MODULE EnergySavingProofs ------------------------
(***************************************************************************)
(* For every zone, window and history of the clock: the search for the     *)
(* next boundary succeeds, and the due instants of the job advance.        *)
(***************************************************************************)
EXTENDS EnergySaving, ClockProofs

\* The configuration, as the invariant keeps it.
Configured ==
    /\ zone \in Zones
    /\ start \in Starts
    /\ end \in Ends

LEMMA ConfiguredFacts ==
    ASSUME Configured
    PROVE  /\ zone.change \in Int /\ zone.before \in Int /\ zone.after \in Int
           /\ zone.after - zone.before < Day /\ zone.before - zone.after < Day
           /\ start \in 0..(Day - 1) /\ end \in 0..(Day - 1)
           /\ Day \in Nat \ {0}
BY LocalTimeAssumption, EnergySavingAssumption DEF Configured

\* Where the window of the n-th date after a date q opens and closes, in local
\* time: the products are named so that what follows is linear.
LEMMA WindowFacts ==
    ASSUME Configured, NEW q \in Int, NEW n \in 2..6
    PROVE  \E opens, closes \in Int :
              /\ opens >= q * Day + 2 * Day
              /\ n = 2 => opens < q * Day + 3 * Day
              /\ n = 6 => opens >= q * Day + 6 * Day
              /\ opens < closes
              /\ closes <= opens + Day
              /\ Opens(q + n) = Instant(opens)
              /\ Closes(q + n) = Instant(closes)
<1> USE ConfiguredFacts
<1>1. PICK p \in Int : p = q * Day
    OBVIOUS
<1>2. (q + n) * Day = p + n * Day /\ (q + n + 1) * Day = p + n * Day + Day
    BY <1>1
<1>3. PICK m \in Int : m = n * Day
    OBVIOUS
<1>4. m >= 2 * Day /\ (n = 2 => m = 2 * Day) /\ (n = 6 => m = 6 * Day)
    BY <1>3
<1> DEFINE opens == p + m + start
           closes == IF end > start THEN p + m + end ELSE p + m + Day + end
<1>5. opens \in Int /\ closes \in Int
    OBVIOUS
<1>6. /\ opens >= q * Day + 2 * Day
      /\ n = 2 => opens < q * Day + 3 * Day
      /\ n = 6 => opens >= q * Day + 6 * Day
      /\ opens < closes
      /\ closes <= opens + Day
    BY <1>1, <1>4
<1>7. Opens(q + n) = Instant(opens)
    BY <1>2, <1>3 DEF Opens, ResolveLocal, Instant
<1>8. Closes(q + n) = Instant(closes)
    BY <1>2, <1>3 DEF Closes, ResolveLocal, Instant
<1> QED
    BY <1>5, <1>6, <1>7, <1>8

\* Of the windows two and six days ahead one is not empty: a change between the
\* start and the end of the first is long past at the start of the second.
LEMMA SomeWindowAhead ==
    ASSUME Configured, NEW t \in Int
    PROVE  Ahead(t) # {}
<1> USE ConfiguredFacts
<1>1. PICK q \in Int : q = LocalDate(t)
    BY LocalDateFacts DEF Configured
<1>2. PICK p \in Int : p = q * Day
    OBVIOUS
<1>3. t + Offset(t) < p + Day
    BY <1>1, <1>2, LocalDateFacts DEF Configured, Local
<1>4. PICK o2 \in Int, c2 \in Int :
          /\ o2 >= p + 2 * Day /\ o2 < p + 3 * Day
          /\ o2 < c2 /\ c2 <= o2 + Day
          /\ Opens(q + 2) = Instant(o2)
          /\ Closes(q + 2) = Instant(c2)
  <2>1. PICK n \in 2..6 : n = 2
      OBVIOUS
  <2>2. PICK opens \in Int, closes \in Int :
              /\ opens >= q * Day + 2 * Day
              /\ n = 2 => opens < q * Day + 3 * Day
              /\ n = 6 => opens >= q * Day + 6 * Day
              /\ opens < closes
              /\ closes <= opens + Day
              /\ Opens(q + n) = Instant(opens)
              /\ Closes(q + n) = Instant(closes)
      BY WindowFacts
  <2>3. opens >= p + 2 * Day /\ opens < p + 3 * Day
      BY <1>2, <2>1, <2>2
  <2> QED
      BY <2>1, <2>2, <2>3
<1>5. PICK o6 \in Int, c6 \in Int :
          /\ o6 >= p + 6 * Day
          /\ o6 < c6 /\ c6 <= o6 + Day
          /\ Opens(q + 6) = Instant(o6)
          /\ Closes(q + 6) = Instant(c6)
    BY <1>2, WindowFacts
<1>6. Closes(q + 2) > t /\ Closes(q + 6) > t
    BY <1>3, <1>4, <1>5 DEF Offset, Instant
<1>7. NonEmpty(q + 2) \/ NonEmpty(q + 6)
    BY <1>4, <1>5 DEF NonEmpty, Instant
<1> QED
    BY <1>1, <1>6, <1>7 DEF Ahead, MaxWindowSearchDays

\* The search returns a boundary of the first date that is ahead.
LEMMA FirstAhead ==
    ASSUME Configured, NEW t \in Int
    PROVE  \E date \in Ahead(t) :
              /\ date \in Int
              /\ \A e \in Ahead(t) : date <= e
              /\ NextTransition(t) = IF Opens(date) > t THEN Opens(date) ELSE Closes(date)
<1> USE ConfiguredFacts
<1>1. PICK q \in Int : q = LocalDate(t)
    BY LocalDateFacts DEF Configured
<1>2. Ahead(t) # {} /\ Ahead(t) \subseteq (q - 1)..(q + 6)
    BY <1>1, SomeWindowAhead DEF Ahead, MaxWindowSearchDays
<1>3. \E d \in Ahead(t) : \A e \in Ahead(t) : d <= e
  <2>1. \/ q - 1 \in Ahead(t) \/ q \in Ahead(t) \/ q + 1 \in Ahead(t)
        \/ q + 2 \in Ahead(t) \/ q + 3 \in Ahead(t) \/ q + 4 \in Ahead(t)
        \/ q + 5 \in Ahead(t) \/ q + 6 \in Ahead(t)
      BY <1>2
  <2> QED
      BY <1>2, <2>1
<1> DEFINE date == CHOOSE d \in Ahead(t) : \A e \in Ahead(t) : d <= e
<1>4. date \in Ahead(t) /\ \A e \in Ahead(t) : date <= e
    BY <1>3
<1>5. NextTransition(t) = IF Opens(date) > t THEN Opens(date) ELSE Closes(date)
    BY <1>2 DEF NextTransition
<1> HIDE DEF date
<1> QED
    BY <1>2, <1>4, <1>5

\* What next_transition returns is a boundary after the instant it is given.
LEMMA NextTransitionLater ==
    ASSUME Configured, NEW t \in Int
    PROVE  NextTransition(t) \in Int /\ NextTransition(t) > t
<1> USE ConfiguredFacts
<1>1. PICK date \in Ahead(t) :
          /\ date \in Int
          /\ NextTransition(t) = IF Opens(date) > t THEN Opens(date) ELSE Closes(date)
    BY FirstAhead
<1>2. Closes(date) > t
    BY <1>1 DEF Ahead
<1>3. Opens(date) \in Int /\ Closes(date) \in Int
    BY <1>1 DEF Opens, Closes, ResolveLocal
<1> QED
    BY <1>1, <1>2, <1>3

\* So is what arm() schedules; the re-check at midnight is never reached.
LEMMA ArmLater ==
    ASSUME Configured, NEW t \in Int
    PROVE  Arm(t) \in Int /\ Arm(t) > t
<1>1. NextTransition(t) # NoTime
    BY NextTransitionLater, EnergySavingAssumption
<1> QED
    BY <1>1, NextTransitionLater DEF Arm

---------------------------------------------------------------------------
(* Between two boundaries. *)

Length == IF end > start THEN end - start ELSE Day + end - start

\* Where the window of a date opens and closes, in local time.
LEMMA WindowOf ==
    ASSUME Configured, NEW d \in Int
    PROVE  \E p, o, c \in Int :
              /\ p = d * Day
              /\ o = p + start
              /\ c = o + Length
              /\ o < c /\ c < p + 2 * Day
              /\ Opens(d) = Instant(o)
              /\ Closes(d) = Instant(c)
<1> USE ConfiguredFacts
<1>1. PICK p \in Int : p = d * Day
    OBVIOUS
<1>2. (d + 1) * Day = p + Day
    BY <1>1
<1>3. PICK o \in Int, c \in Int : o = p + start /\ c = o + Length
    BY DEF Length
<1>4. o < c /\ c < p + 2 * Day
    BY <1>3 DEF Length
<1>5. Opens(d) = Instant(o)
    BY <1>1, <1>3 DEF Opens, ResolveLocal, Instant
<1>6. Closes(d) = Instant(c)
    BY <1>1, <1>2, <1>3 DEF Closes, ResolveLocal, Instant, Length
<1> QED BY <1>1, <1>3, <1>4, <1>5, <1>6

LEMMA WindowType ==
    ASSUME Configured, NEW d \in Int
    PROVE  Opens(d) \in Int /\ Closes(d) \in Int
BY WindowOf, InstantFacts DEF Configured

\* Windows open and close in the order of their dates.
LEMMA WindowsInOrder ==
    ASSUME Configured, NEW d \in Int, NEW e \in Int, d < e
    PROVE  Opens(d) < Opens(e) /\ Closes(d) < Closes(e)
<1> USE ConfiguredFacts
<1>1. PICK p \in Int, o \in Int, c \in Int :
          /\ p = d * Day
          /\ o = p + start
          /\ c = o + Length
          /\ o < c /\ c < p + 2 * Day
          /\ Opens(d) = Instant(o)
          /\ Closes(d) = Instant(c)
    BY WindowOf, Zenon
<1>2. PICK p2 \in Int, o2 \in Int, c2 \in Int :
          /\ p2 = e * Day
          /\ o2 = p2 + start
          /\ c2 = o2 + Length
          /\ o2 < c2 /\ c2 < p2 + 2 * Day
          /\ Opens(e) = Instant(o2)
          /\ Closes(e) = Instant(c2)
    BY WindowOf, Zenon
<1>3. p + Day <= p2
    <2>1. (d + 1) * Day <= p2
        BY <1>2, TimesMonotone
    <2>2. (d + 1) * Day = p + Day
        BY <1>1
    <2> QED BY <2>1, <2>2
<1>4. Length \in Int
    BY DEF Length
<1>5. o + Day <= o2 /\ c + Day <= c2
    BY <1>1, <1>2, <1>3, <1>4
<1> QED BY <1>1, <1>2, <1>5, InstantOrder DEF Configured

\* A window that has opened is not of a later date than the local one, and one
\* that has not closed not of an earlier date than the day before.
LEMMA WindowNearItsDate ==
    ASSUME Configured, NEW d \in Int, NEW t \in Int
    PROVE  /\ Opens(d) <= t => d <= LocalDate(t)
           /\ t < Closes(d) => LocalDate(t) <= d + 1
<1> USE ConfiguredFacts
<1>1. PICK p \in Int, o \in Int, c \in Int :
          /\ p = d * Day /\ o = p + start /\ o < c /\ c < p + 2 * Day
          /\ Opens(d) = Instant(o) /\ Closes(d) = Instant(c)
    BY WindowOf
<1>2. ASSUME Opens(d) <= t PROVE d <= LocalDate(t)
    BY <1>1, <1>2, InstantNearItsDate DEF Configured
<1>3. ASSUME t < Closes(d) PROVE LocalDate(t) <= d + 1
    <2>1. PICK k \in Int : k = d + 1
        OBVIOUS
    <2>2. k * Day = p + Day
        BY <1>1, <2>1
    <2>3. c < k * Day + Day /\ t < Instant(c)
        BY <1>1, <1>3, <2>2
    <2>4. LocalDate(t) <= k
        BY <2>3, InstantNearItsDate DEF Configured
    <2> QED BY <2>1, <2>4
<1> QED BY <1>2, <1>3

\* is_active looks at the two dates whose windows may cover the instant.
LEMMA ActiveIsCovered ==
    ASSUME Configured, NEW t \in Int
    PROVE  IsActive(t) <=> \E d \in Int : Opens(d) <= t /\ t < Closes(d)
<1>1. PICK q \in Int : q = LocalDate(t)
    BY LocalDateFacts DEF Configured
<1>2. ASSUME NEW d \in Int, Opens(d) <= t, t < Closes(d) PROVE IsActive(t)
    <2>1. d <= q /\ q <= d + 1
        BY <1>1, <1>2, WindowNearItsDate
    <2>2. d \in {q - 1, q}
        BY <2>1
    <2>3. NonEmpty(d)
        BY <1>2, WindowType DEF NonEmpty
    <2> QED BY <1>1, <1>2, <2>2, <2>3 DEF IsActive
<1>3. IsActive(t) => \E d \in Int : Opens(d) <= t /\ t < Closes(d)
    BY <1>1 DEF IsActive
<1> QED BY <1>2, <1>3

\* The state does not change before the boundary that next_transition returns:
\* until then the instant is in the window that closes there, or in none.
LEMMA StableUntilTransition ==
    ASSUME Configured, NEW t \in Int, NEW u \in Int, t <= u, u < NextTransition(t)
    PROVE  IsActive(u) <=> IsActive(t)
<1>1. PICK q \in Int : q = LocalDate(t)
    BY LocalDateFacts DEF Configured
<1>2. PICK date \in Ahead(t) :
          /\ \A e \in Ahead(t) : date <= e
          /\ NextTransition(t) = IF Opens(date) > t THEN Opens(date) ELSE Closes(date)
    BY FirstAhead
<1>3. /\ date \in (q - 1)..(q + 6)
      /\ NonEmpty(date) /\ t < Closes(date)
    BY <1>1, <1>2 DEF Ahead, MaxWindowSearchDays
<1>4. ASSUME NEW d \in Int, Opens(d) < Closes(d), t < Closes(d) PROVE date <= d
    <2>1. q <= d + 1
        BY <1>1, <1>4, WindowNearItsDate
    <2>2. CASE d <= q + 6
        <3>1. d \in Ahead(t)
            BY <1>1, <1>4, <2>1, <2>2 DEF Ahead, NonEmpty, MaxWindowSearchDays
        <3> QED BY <1>2, <3>1
    <2>3. CASE d > q + 6
        BY <1>3, <2>3
    <2> QED BY <1>3, <2>2, <2>3
<1>5. Opens(date) \in Int /\ Closes(date) \in Int
    BY <1>3, WindowType
<1>6. CASE Opens(date) <= t
    <2>1. Opens(date) <= u /\ u < Closes(date)
        BY <1>2, <1>5, <1>6
    <2> QED BY <1>3, <1>6, <2>1, ActiveIsCovered
<1>7. CASE Opens(date) > t
    <2>1. u < Opens(date)
        BY <1>2, <1>7
    <2>2. ASSUME NEW d \in Int, NEW v \in {t, u}, Opens(d) <= v, v < Closes(d) PROVE FALSE
        <3>1. Opens(d) \in Int /\ Closes(d) \in Int
            BY WindowType
        <3>2. t < Closes(d) /\ Opens(d) < Closes(d)
            BY <2>2, <3>1
        <3>3. date = d \/ date < d
            BY <1>3, <1>4, <3>2
        <3>4. Opens(date) <= Opens(d)
            BY <1>3, <1>5, <3>1, <3>3, WindowsInOrder
        <3> QED BY <1>5, <1>7, <2>1, <2>2, <3>1, <3>4
    <2> QED BY <2>2, ActiveIsCovered
<1> QED BY <1>5, <1>6, <1>7

---------------------------------------------------------------------------
(* The job. *)

\* The inductive form: the due instant is the boundary after the one that last
\* fired, and the state is the one of an instant since then.
JobInv ==
    /\ TypeOK
    /\ Timing
    /\ \E f \in Int : fired = f /\ (stage # "ended" => fireAt = Arm(f))
    /\ \E x \in Int : ReadAt(x) /\ active = IsActive(x)

LEMMA JobInit ==
    Init => JobInv
<1> SUFFICES ASSUME Init PROVE JobInv
    OBVIOUS
<1>1. now \in Int /\ Configured
    BY SchedulerAssumption DEF Init, Configured
<1>2. Arm(now) \in Int /\ Arm(now) > now
    BY <1>1, ArmLater
<1>3. SchedulerTypeOK /\ Timing /\ ReadAt(now)
    BY <1>1, <1>2, ScheduleFacts DEF Init
<1>4. active = IsActive(now) /\ active \in BOOLEAN
    BY DEF Init, IsActive
<1>5. fired = now /\ fireAt = Arm(now)
    BY DEF Init, ScheduleAt
<1> QED
    BY <1>1, <1>3, <1>4, <1>5 DEF JobInv, TypeOK, Configured

\* The window is fixed, and with it what is derived from it.
LEMMA WindowFixed ==
    ASSUME UNCHANGED windowVars, NEW x \in Int
    PROVE  /\ IsActive(x)' = IsActive(x)
           /\ Arm(x)' = Arm(x)
<1> USE DEF windowVars, Opens, Closes, NonEmpty, ResolveLocal, LocalDate, Offset
<1>1. IsActive(x)' = IsActive(x)
    BY DEF IsActive
<1>2. Ahead(x)' = Ahead(x)
    BY DEF Ahead
<1>3. Arm(x)' = Arm(x)
    BY <1>2 DEF Arm, NextTransition, NextLocalMidnight
<1> QED BY <1>1, <1>3

LEMMA JobStep ==
    JobInv /\ [Next]_vars => JobInv'
<1> SUFFICES ASSUME JobInv, [Next]_vars PROVE JobInv'
    OBVIOUS
<1>1. SchedulerTypeOK /\ Timing /\ Configured
    BY DEF JobInv, TypeOK, Configured
<1>2. PICK f \in Int : fired = f /\ (stage # "ended" => fireAt = Arm(f))
    BY DEF JobInv
<1>3. PICK x \in Int : ReadAt(x) /\ active = IsActive(x)
    BY DEF JobInv
<1>4. UNCHANGED windowVars
    BY DEF Next, Transition, Reschedule, Environment, vars
<1>5. zone' \in Zones /\ start' \in Starts /\ end' \in Ends
    BY <1>4 DEF JobInv, TypeOK, windowVars
<1>6. CASE Transition
    <2>1. PICK y \in Int : y = Later(now, fireAt)
        BY <1>1, <1>6, FireFacts DEF Transition
    <2>2. /\ SchedulerTypeOK' /\ Timing' /\ ReadAt(y)'
          /\ fireAt' = fireAt /\ fired' = fired
        BY <1>1, <1>6, <2>1, FireFacts DEF Transition
    <2>3. active' = IsActive(y) /\ active' \in BOOLEAN
        BY <1>6, <2>1 DEF Transition, IsActive
    <2>4. stage # "ended"
        BY <1>6 DEF Transition, Fire
    <2>5. IsActive(y)' = IsActive(y) /\ Arm(f)' = Arm(f)
        BY <1>4, WindowFixed
    <2> QED BY <1>2, <1>5, <2>2, <2>3, <2>4, <2>5 DEF JobInv, TypeOK
<1>7. CASE Reschedule
    <2>1. PICK g \in Int : g = fireAt
        BY <1>1 DEF SchedulerTypeOK
    <2>2. Arm(g) \in Int /\ Arm(g) > fireAt /\ Rearm(Arm(g))
        BY <1>1, <1>7, <2>1, ArmLater DEF Reschedule
    <2>3. /\ SchedulerTypeOK' /\ Timing' /\ ReadAt(x)'
          /\ fireAt' = Arm(g) /\ fired' = g
        BY <1>1, <1>3, <2>1, <2>2, RearmFacts
    <2>4. active' = active
        BY <1>7 DEF Reschedule
    <2>5. IsActive(x)' = IsActive(x) /\ Arm(g)' = Arm(g)
        BY <1>4, WindowFixed
    <2> QED BY <1>3, <1>5, <2>3, <2>4, <2>5 DEF JobInv, TypeOK
<1>8. CASE Environment
    <2>1. /\ SchedulerTypeOK' /\ Timing' /\ ReadAt(x)'
          /\ fireAt' = fireAt /\ fired' = fired
          /\ stage' = "ended" \/ stage' = stage
        BY <1>1, <1>3, <1>8, AroundFacts DEF Environment
    <2>2. active' = active
        BY <1>8 DEF Environment
    <2>3. IsActive(x)' = IsActive(x) /\ Arm(f)' = Arm(f)
        BY <1>4, WindowFixed
    <2> QED BY <1>2, <1>3, <1>5, <2>1, <2>2, <2>3 DEF JobInv, TypeOK
<1>9. CASE UNCHANGED vars
    <2>1. IsActive(x)' = IsActive(x) /\ Arm(f)' = Arm(f)
        BY <1>4, WindowFixed
    <2> QED
        BY <1>1, <1>2, <1>3, <1>5, <1>9, <2>1
        DEF JobInv, TypeOK, SchedulerTypeOK, Timing, ReadAt, vars, schedulerVars,
            clockVars, jobVars
<1> QED
    BY <1>6, <1>7, <1>8, <1>9 DEF Next

LEMMA JobInvariant ==
    Spec => []JobInv
BY JobInit, JobStep, PTL DEF Spec

\* The job's state keeps its type; in particular the due instant is always an
\* instant, which rests on the search for a boundary succeeding.
THEOREM TypeInvariant ==
    Spec => []TypeOK
<1>1. JobInv => TypeOK
    BY DEF JobInv
<1> QED
    BY <1>1, JobInvariant, PTL

\* "A controller running continuously and one restarted at any instant
\* therefore agree" (energysaving/mod.rs), for every window, every zone of the
\* assumptions and every history of the clock.
THEOREM RunningAgreesWithRestart ==
    Spec => []AgreesWithRestart
<1>1. JobInv => AgreesWithRestart
    <2> SUFFICES ASSUME JobInv, late = 0 \/ steps = 0, stage = "sleep",
                        fired <= now, now < fireAt
                 PROVE  active = IsActive(now)
        BY DEF AgreesWithRestart
    <2>1. now \in Int /\ fired \in Int /\ Configured
        BY DEF JobInv, TypeOK, SchedulerTypeOK, Configured
    <2>2. PICK x \in Int : ReadAt(x) /\ active = IsActive(x)
        BY DEF JobInv
    <2>3. fired <= x /\ x <= now
        BY <2>1, <2>2 DEF ReadAt
    <2>4. fireAt = NextTransition(fired) /\ fireAt \in Int
        <3>1. NextTransition(fired) # NoTime
            BY <2>1, NextTransitionLater, EnergySavingAssumption
        <3> QED BY <3>1 DEF JobInv, Arm, TypeOK, SchedulerTypeOK
    <2>5. (IsActive(now) <=> IsActive(fired)) /\ (IsActive(x) <=> IsActive(fired))
        BY <2>1, <2>3, <2>4, StableUntilTransition
    <2>6. IsActive(now) \in BOOLEAN /\ IsActive(x) \in BOOLEAN
        BY DEF IsActive
    <2> QED BY <2>2, <2>5, <2>6
<1> QED
    BY <1>1, JobInvariant, PTL

\* resolve_local gives what clock/mod.rs documents for every civil time of
\* every day: the first of two readings, and a skipped time shifted by the gap.
THEOREM CivilTimesAlwaysResolve ==
    Spec => []CivilTimesResolve
<1>1. TypeOK => CivilTimesResolve
    BY ResolvesEverywhere DEF TypeOK, SchedulerTypeOK, CivilTimesResolve
<1> QED
    BY <1>1, TypeInvariant, PTL

\* next_local_midnight is the first instant of the next local date, on the days
\* of a change too.
THEOREM MidnightAlwaysNextDay ==
    Spec => []MidnightIsNextDay
<1>1. TypeOK => MidnightIsNextDay
    BY MidnightEndsEveryDay DEF TypeOK, SchedulerTypeOK, MidnightIsNextDay
<1> QED
    BY <1>1, TypeInvariant, PTL

\* next_transition never returns None: eight days always hold a window that a
\* change of the zone's offset has not emptied, whatever its size (less than a
\* day) and wherever it falls.
THEOREM SearchSucceeds ==
    Spec => []BoundaryFound
<1>1. TypeOK => BoundaryFound
    BY NextTransitionLater, EnergySavingAssumption
    DEF TypeOK, SchedulerTypeOK, Configured, BoundaryFound
<1> QED
    BY <1>1, TypeInvariant, PTL

\* Each due instant is after the one before it: the job cannot spin on one
\* boundary, however late it runs and however the wall clock is set.
THEOREM DueInstantsAdvance ==
    Spec => DueAdvances
<1>1. TypeOK /\ Reschedule => fireAt' > fireAt
    BY ArmLater DEF TypeOK, SchedulerTypeOK, Configured, Reschedule, Rearm
<1>2. TypeOK /\ [Next]_vars => [Reschedule => fireAt' > fireAt]_vars
    BY <1>1
<1> QED
    BY <1>2, TypeInvariant, PTL DEF Spec, DueAdvances
=============================================================================
