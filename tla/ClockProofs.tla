---------------------------- MODULE ClockProofs ----------------------------
(***************************************************************************)
(* Civil time and the timing of a job, for every length of the day and     *)
(* every zone: what the proofs about the scheduled jobs share.             *)
(***************************************************************************)
EXTENDS LocalTime, Scheduler, WellFoundedInduction, TLAPS

\* A local date is the day its local time lies in.
LEMMA DivBounds ==
    ASSUME NEW x \in Int, NEW d \in Nat \ {0}
    PROVE  /\ x \div d \in Int
           /\ (x \div d) * d <= x
           /\ x < (x \div d) * d + d
OBVIOUS

LEMMA TimesMonotone ==
    ASSUME NEW a \in Int, NEW b \in Int, NEW d \in Nat, a <= b
    PROVE  a * d <= b * d
<1>1. PICK n \in Nat : b = a + n
    <2>1. b - a \in Nat /\ b = a + (b - a)
        OBVIOUS
    <2> QED BY <2>1
<1>2. b * d = a * d + n * d
    BY <1>1
<1>3. n * d \in Nat
    OBVIOUS
<1>4. a * d \in Int /\ b * d \in Int
    OBVIOUS
<1> QED BY <1>2, <1>3, <1>4

\* The day of a time at or after a midnight, and of one before it.
LEMMA DivOrder ==
    ASSUME NEW x \in Int, NEW k \in Int, NEW d \in Nat \ {0}
    PROVE  /\ k * d <= x => k <= x \div d
           /\ x < k * d => x \div d < k
<1>1. PICK q \in Int : q = x \div d
    BY DivBounds
<1>2. PICK qd \in Int, kd \in Int : qd = q * d /\ kd = k * d
    OBVIOUS
<1>3. qd <= x /\ x < qd + d
    BY <1>1, <1>2, DivBounds
<1>4. ASSUME kd <= x PROVE k <= q
    <2> SUFFICES ASSUME q + 1 <= k PROVE FALSE
        OBVIOUS
    <2>1. (q + 1) * d <= kd
        BY <1>2, TimesMonotone
    <2>2. (q + 1) * d = qd + d
        BY <1>2
    <2> QED BY <1>3, <1>4, <2>1, <2>2
<1>5. ASSUME x < kd PROVE q < k
    <2> SUFFICES ASSUME k <= q PROVE FALSE
        OBVIOUS
    <2>1. kd <= qd
        BY <1>2, TimesMonotone
    <2> QED BY <1>3, <1>5, <2>1
<1> QED BY <1>1, <1>2, <1>4, <1>5

\* The provers have no induction, but a least counterexample will do.
LEMMA LeastNat ==
    ASSUME NEW T, T \subseteq Nat, T # {}
    PROVE  \E x \in T : \A y \in T : x <= y
<1> DEFINE R == OpToRel(<, Nat)
<1>1. PICK x \in T : \A y \in T : <<y, x>> \notin R
    BY WFMin, NatLessThanWellFounded, Zenon
<1>2. \A y \in T : y < x => <<y, x>> \in R
    BY DEF OpToRel
<1>3. \A y \in T : ~(y < x)
    BY <1>1, <1>2, Zenon
<1> QED BY <1>3

---------------------------------------------------------------------------
(* Civil time. *)

LEMMA ZoneFacts ==
    ASSUME zone \in Zones
    PROVE  /\ zone.change \in Int /\ zone.before \in Int /\ zone.after \in Int
           /\ zone.after - zone.before < Day /\ zone.before - zone.after < Day
           /\ Day \in Nat \ {0}
BY LocalTimeAssumption

LEMMA LocalType ==
    ASSUME zone \in Zones, NEW t \in Int
    PROVE  Local(t) \in Int /\ Offset(t) \in Int
BY ZoneFacts DEF Local, Offset

\* An instant lies in its local date.
LEMMA LocalDateFacts ==
    ASSUME zone \in Zones, NEW t \in Int
    PROVE  /\ LocalDate(t) \in Int
           /\ LocalDate(t) * Day <= Local(t)
           /\ Local(t) < LocalDate(t) * Day + Day
<1>1. Local(t) \in Int /\ Day \in Nat \ {0} /\ LocalDate(t) = Local(t) \div Day
    BY ZoneFacts, LocalType DEF Local, LocalDate
<1> QED
    BY <1>1, DivBounds

LEMMA LocalDateOrder ==
    ASSUME zone \in Zones, NEW t \in Int, NEW k \in Int
    PROVE  /\ k * Day <= Local(t) => k <= LocalDate(t)
           /\ Local(t) < k * Day => LocalDate(t) < k
<1>1. Local(t) \in Int /\ Day \in Nat \ {0} /\ LocalDate(t) = Local(t) \div Day
    BY ZoneFacts, LocalType DEF Local, LocalDate
<1> QED
    BY <1>1, DivOrder

LEMMA LocalDateIs ==
    ASSUME zone \in Zones, NEW t \in Int, NEW k \in Int,
           k * Day <= Local(t), Local(t) < k * Day + Day
    PROVE  LocalDate(t) = k
<1>1. (k + 1) * Day = k * Day + Day
    BY ZoneFacts
<1>2. LocalDate(t) \in Int /\ k <= LocalDate(t) /\ LocalDate(t) < k + 1
    BY <1>1, LocalDateFacts, LocalDateOrder
<1> QED BY <1>2

\* ResolveLocal, of a local time given as a number.
Instant(local) ==
    IF local - zone.before < zone.change \/ local - zone.after < zone.change
    THEN local - zone.before
    ELSE local - zone.after

\* A local time that some instant reads as is resolved to the first of them,
\* and one that is skipped is shifted by the gap.
LEMMA InstantFacts ==
    ASSUME zone \in Zones, NEW local \in Int
    PROVE  /\ Instant(local) \in Int
           /\ \/ Local(Instant(local)) = local
              \/ /\ Local(Instant(local)) = local + zone.after - zone.before
                 /\ \A u \in Int : Local(u) # local
           /\ \A u \in Int : Local(u) = local => Instant(local) <= u
<1> USE ZoneFacts
<1>1. Instant(local) \in Int
    BY DEF Instant
<1>2. CASE local - zone.before < zone.change
    BY <1>2 DEF Instant, Local, Offset
<1>3. CASE local - zone.before >= zone.change /\ local - zone.after < zone.change
    BY <1>3 DEF Instant, Local, Offset
<1>4. CASE local - zone.before >= zone.change /\ local - zone.after >= zone.change
    BY <1>4 DEF Instant, Local, Offset
<1> QED BY <1>1, <1>2, <1>3, <1>4

\* resolve_local keeps what clock/mod.rs documents, on every day of every zone.
LEMMA ResolvesEverywhere ==
    ASSUME zone \in Zones, NEW t \in Int
    PROVE  ResolvesNear(t)
<1> USE ZoneFacts
<1> SUFFICES ASSUME NEW time \in 0..(Day - 1),
                    NEW local, local = LocalDate(t) * Day + time,
                    NEW resolved, resolved = ResolveLocal(LocalDate(t), time)
             PROVE  IF Readings(t, local) # {}
                    THEN /\ resolved \in Readings(t, local)
                         /\ \A u \in Readings(t, local) : resolved <= u
                    ELSE Local(resolved) = local + zone.after - zone.before
    BY DEF ResolvesNear
<1>1. PICK p \in Int : p = LocalDate(t) * Day
    BY LocalDateFacts
<1>2. local \in Int /\ p <= local /\ local < p + Day
    BY <1>1
<1>3. p <= Local(t) /\ Local(t) < p + Day
    BY <1>1, LocalDateFacts
<1>4. resolved = Instant(local)
    BY DEF ResolveLocal, Instant
<1>5. resolved \in Int
    BY <1>2, <1>4, InstantFacts
<1>6. resolved \in (t - 2 * Day)..(t + 2 * Day)
    BY <1>2, <1>3, <1>4, <1>5 DEF Instant, Local, Offset
<1>7. Readings(t, local) \subseteq Int /\ \A u \in Readings(t, local) : Local(u) = local
    BY DEF Readings
<1>8. CASE Local(resolved) = local
    <2>1. resolved \in Readings(t, local)
        BY <1>6, <1>8 DEF Readings
    <2>2. \A u \in Int : Local(u) = local => resolved <= u
        BY <1>2, <1>4, InstantFacts
    <2>3. \A u \in Readings(t, local) : resolved <= u
        BY <1>7, <2>2
    <2> QED BY <2>1, <2>3
<1>9. CASE Local(resolved) # local
    <2>1. Local(resolved) = local + zone.after - zone.before /\ \A u \in Int : Local(u) # local
        BY <1>2, <1>4, <1>9, InstantFacts
    <2>2. Readings(t, local) = {}
        BY <1>7, <2>1
    <2> QED BY <2>1, <2>2
<1> QED BY <1>8, <1>9

LEMMA MultipleMod ==
    ASSUME NEW k \in Int, NEW d \in Nat \ {0}, NEW m \in Int, m = k * d
    PROVE  m % d = 0
OBVIOUS

\* A local midnight is not strictly inside what the change skips or repeats.
LEMMA MidnightOutside ==
    ASSUME zone \in Zones, NEW k \in Int
    PROVE  /\ ~(zone.change + zone.before < k * Day /\ k * Day < zone.change + zone.after)
           /\ ~(zone.change + zone.after < k * Day /\ k * Day < zone.change + zone.before)
<1> USE ZoneFacts
<1>1. PICK m \in Int : m = k * Day
    OBVIOUS
<1>2. m % Day = 0
    BY <1>1, MultipleMod
<1>3. /\ m \notin (zone.change + zone.before + 1)..(zone.change + zone.after - 1)
      /\ m \notin (zone.change + zone.after + 1)..(zone.change + zone.before - 1)
    BY <1>2, MidnightAssumption
<1> QED BY <1>1, <1>3

\* next_local_midnight is the first instant of the next local date.
LEMMA MidnightEndsEveryDay ==
    ASSUME zone \in Zones, NEW t \in Int
    PROVE  MidnightEndsTheDay(t)
<1> USE ZoneFacts
<1>1. PICK date \in Int : date = LocalDate(t)
    BY LocalDateFacts
<1>2. PICK p \in Int : p = date * Day
    OBVIOUS
<1>3. (date + 1) * Day = p + Day
    BY <1>2
<1>4. p <= Local(t) /\ Local(t) < p + Day
    BY <1>1, <1>2, LocalDateFacts
<1>5. NextLocalMidnight(t) = Instant(p + Day)
    BY <1>1, <1>3 DEF NextLocalMidnight, ResolveLocal, Instant
<1>6. /\ ~(zone.change + zone.before < p + Day /\ p + Day < zone.change + zone.after)
      /\ ~(zone.change + zone.after < p + Day /\ p + Day < zone.change + zone.before)
    BY <1>3, MidnightOutside
<1>7. /\ ~(zone.change + zone.before < p /\ p < zone.change + zone.after)
      /\ ~(zone.change + zone.after < p /\ p < zone.change + zone.before)
    BY <1>2, MidnightOutside
<1>8. PICK next \in Int : next = Instant(p + Day)
    BY InstantFacts
<1>9. next > t
    BY <1>4, <1>6, <1>8 DEF Instant, Local, Offset
<1>10. LocalDate(next) = date + 1
    <2>1. p + Day <= Local(next) /\ Local(next) < p + Day + Day
        BY <1>8 DEF Instant, Local, Offset
    <2> QED BY <1>3, <2>1, LocalDateIs
<1>11. ASSUME NEW u \in t..(next - 1) PROVE LocalDate(u) = date
    <2>1. p <= Local(u) /\ Local(u) < p + Day
        BY <1>4, <1>6, <1>7, <1>8 DEF Instant, Local, Offset
    <2> QED BY <1>2, <2>1, LocalDateIs
<1> QED BY <1>1, <1>5, <1>8, <1>9, <1>10, <1>11 DEF MidnightEndsTheDay

\* Nor is a midnight strictly between the first time a gap skips and the last
\* one that those are shifted to.
LEMMA GapOutside ==
    ASSUME zone \in Zones, NEW k \in Int
    PROVE  ~(/\ zone.change + zone.before < k * Day
             /\ k * Day < zone.change + 2 * zone.after - zone.before)
<1> USE ZoneFacts
<1>1. PICK m \in Int : m = k * Day
    OBVIOUS
<1>2. m % Day = 0
    BY <1>1, MultipleMod
<1>3. m \notin (zone.change + zone.before + 1)..(zone.change + 2 * zone.after - zone.before - 1)
    BY <1>2, GapAssumption
<1> QED BY <1>1, <1>3

\* A local time of the date k, or a later one, resolves to an instant before t
\* only if k has come; one of k, or earlier, to an instant after t only if k has
\* not passed.
LEMMA InstantNearItsDate ==
    ASSUME zone \in Zones, NEW k \in Int, NEW local \in Int, NEW t \in Int
    PROVE  /\ k * Day <= local /\ Instant(local) <= t => k <= LocalDate(t)
           /\ local < k * Day + Day /\ t < Instant(local) => LocalDate(t) <= k
<1> USE ZoneFacts
<1>1. PICK p \in Int : p = k * Day
    OBVIOUS
<1>2. ASSUME p <= local, Instant(local) <= t PROVE k <= LocalDate(t)
    <2>1. ~(zone.change + zone.after < p /\ p < zone.change + zone.before)
        BY <1>1, MidnightOutside
    <2>2. p <= Local(t)
        BY <1>2, <2>1 DEF Instant, Local, Offset
    <2> QED BY <1>1, <2>2, LocalDateOrder
<1>3. ASSUME local < p + Day, t < Instant(local) PROVE LocalDate(t) <= k
    <2>1. (k + 1) * Day = p + Day
        BY <1>1
    <2>2. ~(/\ zone.change + zone.before < p + Day
            /\ p + Day < zone.change + 2 * zone.after - zone.before)
        BY <2>1, GapOutside
    <2>3. Local(t) < p + Day
        BY <1>3, <2>2 DEF Instant, Local, Offset
    <2>4. LocalDate(t) < k + 1
        BY <2>1, <2>3, LocalDateOrder
    <2> QED BY <2>4, LocalDateFacts
<1> QED BY <1>1, <1>2, <1>3

\* Times a day apart resolve in their order.
LEMMA InstantOrder ==
    ASSUME zone \in Zones, NEW x \in Int, NEW y \in Int, x + Day <= y
    PROVE  Instant(x) < Instant(y)
BY ZoneFacts DEF Instant

\* Local dates do not go back, though local times may.
LEMMA LocalDateMonotone ==
    ASSUME zone \in Zones, NEW t \in Int, NEW u \in Int, t <= u
    PROVE  LocalDate(t) <= LocalDate(u)
<1> USE ZoneFacts
<1>1. PICK date \in Int, p \in Int : date = LocalDate(t) /\ p = date * Day
    BY LocalDateFacts
<1>2. p <= Local(t)
    BY <1>1, LocalDateFacts
<1>3. ~(zone.change + zone.after < p /\ p < zone.change + zone.before)
    BY <1>1, MidnightOutside
<1>4. p <= Local(u)
    BY <1>2, <1>3 DEF Local, Offset
<1> QED BY <1>1, <1>4, LocalDateOrder

---------------------------------------------------------------------------
(* A job. *)

\* A job that has not been late fires no later than it is due, and one whose
\* clock has not been set back no earlier.
Timing ==
    /\ stage = "sleep" => /\ steps = 0 => fireAt <= now + timer
                          /\ late = 0 => now + timer <= fireAt
    /\ stage = "acted" => /\ steps = 0 => fireAt <= now
                          /\ late = 0 => now <= fireAt

\* A controller's state was last read at x: at the due instant, or after it
\* when the job was late.
ReadAt(x) ==
    /\ stage = "sleep" => /\ fired <= x
                          /\ late = 0 => x = fired
                          /\ steps = 0 => x <= now
    /\ stage = "acted" => /\ fireAt <= x
                          /\ late = 0 => x = fireAt
                          /\ steps = 0 => x <= now

LEMMA DelayFacts ==
    ASSUME now \in Int, NEW due \in Int
    PROVE  /\ Delay(due) \in Nat
           /\ now + Delay(due) >= due
           /\ due >= now => now + Delay(due) = due
BY DEF Delay, Later

LEMMA ScheduleFacts ==
    ASSUME NEW due \in Int, now \in Int, ScheduleAt(due), due >= now
    PROVE  SchedulerTypeOK /\ Timing /\ ReadAt(now)
<1>1. cancelled \in BOOLEAN /\ stage = "sleep"
    BY Zenon DEF ScheduleAt
<1>2. /\ timer = Delay(due) /\ fireAt = due /\ fired = now
      /\ late = 0 /\ steps = 0
    BY DEF ScheduleAt
<1> QED
    BY <1>1, <1>2, DelayFacts, SchedulerAssumption DEF SchedulerTypeOK, Timing, ReadAt

\* What happens while a job sleeps or acts.
LEMMA AroundFacts ==
    ASSUME SchedulerTypeOK, Timing,
           Tick \/ (\E amount \in StepsBack : StepBack(amount)) \/ Cancel \/ End
    PROVE  /\ SchedulerTypeOK' /\ Timing'
           /\ \A x \in Int : ReadAt(x) => ReadAt(x)'
           /\ fireAt' = fireAt /\ fired' = fired
           /\ stage' = "ended" \/ stage' = stage
<1> USE SchedulerAssumption DEF SchedulerTypeOK, Timing, ReadAt, clockVars, jobVars
<1>1. CASE Tick
    BY <1>1 DEF Tick
<1>2. CASE \E amount \in StepsBack : StepBack(amount)
    BY <1>2 DEF StepBack
<1>3. CASE Cancel
    BY <1>3 DEF Cancel
<1>4. CASE End
    BY <1>4 DEF End
<1> QED BY <1>1, <1>2, <1>3, <1>4

LEMMA FireFacts ==
    ASSUME SchedulerTypeOK, Timing, NEW reported \in BOOLEAN, Fire(reported)
    PROVE  /\ SchedulerTypeOK' /\ Timing'
           /\ Later(now, fireAt) \in Int
           /\ \A x \in Int : x = Later(now, fireAt) => ReadAt(x)'
           /\ fireAt' = fireAt /\ fired' = fired
BY DEF SchedulerTypeOK, Timing, ReadAt, Fire, Later, clockVars

LEMMA RearmFacts ==
    ASSUME SchedulerTypeOK, Timing, NEW next \in Int, next >= fireAt, Rearm(next)
    PROVE  /\ SchedulerTypeOK' /\ Timing'
           /\ \A x \in Int : ReadAt(x) => ReadAt(x)'
           /\ fireAt' = next /\ fired' = fireAt
<1>1. now' = now /\ late' = late /\ steps' = steps /\ timer' = Delay(next)
    BY DEF Rearm, clockVars
<1> QED
    BY <1>1, DelayFacts DEF SchedulerTypeOK, Timing, ReadAt, Rearm
=============================================================================
