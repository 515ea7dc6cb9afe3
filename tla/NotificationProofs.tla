------------------------ MODULE NotificationProofs ------------------------
(***************************************************************************)
(* For any number of devices, any calendar and any zone: a job fires on    *)
(* each date of its schedule, once and in order, its message names the     *)
(* year, and no connected device is left out.                              *)
(***************************************************************************)
EXTENDS Notification, ClockProofs

LEMMA HeardInit ==
    Init => HeardOrPending
BY DEF Init, ScheduleAt, HeardOrPending

\* Steps of the job.
LEMMA HeardJob ==
    ASSUME HeardOrPending,
           \/ Action
           \/ \E c \in Clients, accepted \in BOOLEAN : Publish(c, accepted)
           \/ Reschedule
           \/ Return
    PROVE  HeardOrPending'
<1>1. CASE Action
    BY <1>1 DEF Action, HeardOrPending
<1>2. ASSUME NEW c \in Clients, NEW accepted \in BOOLEAN, Publish(c, accepted)
      PROVE  HeardOrPending'
  <2>1. /\ stage' = stage /\ stayed' = stayed
        /\ pending' = pending \ {c}
        /\ got' \cup refused' = got \cup refused \cup {c}
      BY <1>2 DEF Publish, schedulerVars, jobVars, deviceVars
  <2> QED
      BY <2>1 DEF HeardOrPending
<1>3. CASE Reschedule
    BY <1>3 DEF Reschedule, Rearm, HeardOrPending
<1>4. CASE Return
    BY <1>4 DEF Return, End, HeardOrPending
<1> QED
    BY <1>1, <1>2, <1>3, <1>4

\* Steps around it: a device that disconnects is no longer one that stayed.
LEMMA HeardEnvironment ==
    ASSUME HeardOrPending, Environment
    PROVE  HeardOrPending'
<1> USE DEF HeardOrPending, schedulerVars, clockVars, jobVars, deviceVars, actionVars
<1>1. ASSUME NEW c \in Clients, Connect(c) \/ Disconnect(c)
      PROVE  HeardOrPending'
    BY <1>1 DEF Connect, Disconnect
<1>2. ASSUME NEW failure \in BOOLEAN, Stop(failure)
      PROVE  HeardOrPending'
    BY <1>2 DEF Stop, Cancel
<1>3. CASE Poison
    BY <1>3 DEF Poison
<1>4. CASE Clock
    BY <1>4 DEF Clock, Tick, StepBack
<1> QED
    BY <1>1, <1>2, <1>3, <1>4 DEF Environment

\* A device connected when a notification fires, and until its action returns,
\* has been published it or has been refused by the broker: one client's
\* failure ends neither the loop nor another's turn.
THEOREM NobodyLeftOut ==
    Spec => []NoDeviceLeftOut
<1>1. HeardOrPending /\ [Next]_vars => HeardOrPending'
  <2> SUFFICES ASSUME HeardOrPending, [Next]_vars PROVE HeardOrPending'
      OBVIOUS
  <2>1. CASE UNCHANGED vars
      BY <2>1 DEF vars, schedulerVars, jobVars, deviceVars, actionVars, HeardOrPending
  <2>2. CASE Next
      BY <2>2, HeardJob, HeardEnvironment DEF Next
  <2> QED
      BY <2>1, <2>2
<1>2. HeardOrPending => NoDeviceLeftOut
    BY DEF HeardOrPending, NoDeviceLeftOut
<1> QED
    BY <1>1, <1>2, HeardInit, PTL DEF Spec

---------------------------------------------------------------------------
(* The calendar. *)

LEMMA ModUnique ==
    ASSUME NEW x \in Int, NEW d \in Nat \ {0}, NEW q \in Int, NEW r \in 0..(d - 1),
           x = q * d + r
    PROVE  x % d = r /\ x \div d = q
<1>1. PICK p \in Int : p = x \div d
    BY DivBounds
<1>2. PICK qd \in Int : qd = q * d
    OBVIOUS
<1>3. q <= p
    BY <1>1, <1>2, DivOrder
<1>4. p < q + 1
    <2>1. (q + 1) * d = qd + d
        BY <1>2
    <2>2. x < (q + 1) * d
        BY <1>2, <2>1
    <2> QED BY <1>1, <2>2, DivOrder
<1>5. p = q
    BY <1>3, <1>4
<1>6. x % d = x - p * d
    BY <1>1
<1> QED BY <1>1, <1>2, <1>5, <1>6

LEMMA DivMod ==
    ASSUME NEW x \in Int, NEW d \in Nat \ {0}
    PROVE  /\ x \div d \in Int /\ x % d \in 0..(d - 1)
           /\ x = (x \div d) * d + (x % d)
OBVIOUS

\* A later month starts later.
LEMMA MonthsInOrder ==
    ASSUME NEW m \in 0..(LastMonth + 1), NEW n \in 0..(LastMonth + 1), m < n
    PROVE  MonthStart[m] < MonthStart[n]
<1> USE NotificationAssumption
<1> DEFINE Bad == {k \in 0..(LastMonth + 1) : m < k /\ MonthStart[k] <= MonthStart[m]}
<1> SUFFICES ASSUME Bad # {} PROVE FALSE
    OBVIOUS
<1>1. PICK k \in Bad : \A y \in Bad : k <= y
    <2>1. Bad \subseteq Nat
        OBVIOUS
    <2> QED BY <2>1, LeastNat
<1>2. k - 1 \in Months /\ MonthStart[k - 1] < MonthStart[k]
    BY DEF Months
<1>3. CASE k - 1 = m
    BY <1>2, <1>3
<1>4. CASE k - 1 # m
    <2>1. k - 1 \notin Bad
        BY <1>1
    <2> QED BY <1>2, <1>4, <2>1
<1> QED BY <1>3, <1>4

\* Each date of the calendar is in one month.
LEMMA MonthOfFacts ==
    ASSUME NEW date \in Dates
    PROVE  /\ date \in Int
           /\ MonthOf(date) \in Months
           /\ MonthStart[MonthOf(date)] <= date
           /\ date < MonthStart[MonthOf(date) + 1]
<1> USE NotificationAssumption
<1>1. date \in Int /\ MonthStart[0] <= date /\ date < MonthStart[LastMonth + 1]
    BY DEF Dates
<1> DEFINE Ahead == {k \in Months : date < MonthStart[k + 1]}
<1>2. Ahead \subseteq Nat /\ LastMonth \in Ahead
    BY <1>1 DEF Months
<1>3. PICK k \in Ahead : \A y \in Ahead : k <= y
    BY <1>2, LeastNat
<1>4. MonthStart[k] <= date
    <2>1. CASE k = 0
        BY <1>1, <2>1
    <2>2. CASE k # 0
        <3>1. k \in Nat /\ k - 1 \in Months /\ (k - 1) + 1 = k
            BY <2>2 DEF Months
        <3>2. k - 1 \notin Ahead
            BY <1>3, <3>1
        <3>3. ~(date < MonthStart[k])
            BY <3>1, <3>2
        <3>4. MonthStart[k] \in Int
            BY DEF Months
        <3> QED BY <1>1, <3>3, <3>4
    <2> QED BY <2>1, <2>2
<1>5. \E m \in Months : MonthStart[m] <= date /\ date < MonthStart[m + 1]
    BY <1>4
<1> QED BY <1>1, <1>5 DEF MonthOf

LEMMA MonthOfIs ==
    ASSUME NEW m \in Months, NEW date \in Int,
           MonthStart[m] <= date, date < MonthStart[m + 1]
    PROVE  date \in Dates /\ MonthOf(date) = m
<1> USE NotificationAssumption
<1>1. date \in Dates
    <2>1. MonthStart[0] <= MonthStart[m]
        BY MonthsInOrder DEF Months
    <2>2. MonthStart[m + 1] <= MonthStart[LastMonth + 1]
        BY MonthsInOrder DEF Months
    <2> QED BY <2>1, <2>2 DEF Dates, Months
<1>2. PICK n \in Months : n = MonthOf(date)
    BY <1>1, MonthOfFacts
<1>3. MonthStart[n] <= date /\ date < MonthStart[n + 1]
    BY <1>1, <1>2, MonthOfFacts
<1>4. MonthStart[m] \in Int /\ MonthStart[n] \in Int /\ MonthStart[m + 1] \in Int /\ MonthStart[n + 1] \in Int
    BY DEF Months
<1>5. ~(m < n)
    <2> SUFFICES ASSUME m < n PROVE FALSE
        OBVIOUS
    <2>1. MonthStart[m + 1] <= MonthStart[n]
        <3>1. m + 1 = n \/ MonthStart[m + 1] < MonthStart[n]
            BY MonthsInOrder DEF Months
        <3> QED BY <1>4, <3>1
    <2> QED BY <1>3, <1>4, <2>1
<1>6. ~(n < m)
    <2> SUFFICES ASSUME n < m PROVE FALSE
        OBVIOUS
    <2>1. MonthStart[n + 1] <= MonthStart[m]
        <3>1. n + 1 = m \/ MonthStart[n + 1] < MonthStart[m]
            BY MonthsInOrder DEF Months
        <3> QED BY <1>4, <3>1
    <2> QED BY <1>3, <1>4, <2>1
<1>7. n = m
    BY <1>5, <1>6 DEF Months
<1> QED BY <1>1, <1>2, <1>7

\* Later dates are in later months.
LEMMA MonthOfMonotone ==
    ASSUME NEW d \in Dates, NEW e \in Dates, d <= e
    PROVE  MonthOf(d) <= MonthOf(e)
<1> USE NotificationAssumption
<1>1. PICK m \in Months, n \in Months : m = MonthOf(d) /\ n = MonthOf(e)
    BY MonthOfFacts
<1>2. d \in Int /\ e \in Int /\ MonthStart[m] <= d /\ e < MonthStart[n + 1]
    BY <1>1, MonthOfFacts
<1> SUFFICES ASSUME n < m PROVE FALSE
    BY <1>1 DEF Months
<1>3. n + 1 = m \/ MonthStart[n + 1] < MonthStart[m]
    BY MonthsInOrder DEF Months
<1>4. MonthStart[m] \in Int /\ MonthStart[n + 1] \in Int
    BY DEF Months
<1> QED BY <1>2, <1>3, <1>4

\* The clamped date is in its month, and is the only date there that is to fire.
LEMMA ClampedFacts ==
    ASSUME NEW m \in Months, NEW day \in Nat \ {0}
    PROVE  /\ Clamped(m, day) \in Dates
           /\ MonthStart[m] <= Clamped(m, day)
           /\ Clamped(m, day) < MonthStart[m + 1]
           /\ MonthOf(Clamped(m, day)) = m
           /\ IsDay(Clamped(m, day), day)
<1>1. PICK a \in Int, b \in Int : a = MonthStart[m] /\ b = MonthStart[m + 1] /\ a < b
    BY NotificationAssumption DEF Months
<1> DEFINE c == Clamped(m, day)
<1>2. /\ c \in Int /\ a <= c /\ c < b
      /\ c - a + 1 = day \/ (c + 1 = b /\ c - a + 1 < day)
    <2>1. CASE day < b - a
        <3>1. c = a + day - 1
            BY <1>1, <2>1 DEF Clamped, Earlier, DaysInMonth
        <3> HIDE DEF c
        <3> QED BY <1>1, <2>1, <3>1
    <2>2. CASE ~(day < b - a)
        <3>1. c = a + (b - a) - 1
            BY <1>1, <2>2 DEF Clamped, Earlier, DaysInMonth
        <3> HIDE DEF c
        <3> QED BY <1>1, <2>2, <3>1
    <2> QED BY <2>1, <2>2
<1>3. c \in Dates /\ MonthOf(c) = m
    BY <1>1, <1>2, MonthOfIs
<1> QED BY <1>1, <1>2, <1>3 DEF IsDay, DayOfMonth

LEMMA IsDayIsClamped ==
    ASSUME NEW date \in Dates, NEW day \in Nat \ {0}, IsDay(date, day)
    PROVE  date = Clamped(MonthOf(date), day)
<1> USE NotificationAssumption
<1>1. PICK m \in Months : m = MonthOf(date)
    BY MonthOfFacts
<1>2. PICK a \in Int, b \in Int : a = MonthStart[m] /\ b = MonthStart[m + 1]
    BY DEF Months
<1>3. date \in Int /\ a <= date /\ date < b
    BY <1>1, <1>2, MonthOfFacts
<1>4. date - a + 1 = day \/ (date + 1 = b /\ date - a + 1 < day)
    BY <1>1, <1>2 DEF IsDay, DayOfMonth
<1>5. Clamped(m, day) = IF day < b - a THEN a + day - 1 ELSE a + (b - a) - 1
    BY <1>2 DEF Clamped, Earlier, DaysInMonth
<1>6. date = IF day < b - a THEN a + day - 1 ELSE a + (b - a) - 1
    BY <1>3, <1>4
<1> QED BY <1>1, <1>5, <1>6

LEMMA ClampedOrder ==
    ASSUME NEW m \in Months, NEW n \in Months, m <= n, NEW day \in Nat \ {0}
    PROVE  Clamped(m, day) <= Clamped(n, day)
<1> USE NotificationAssumption
<1>1. PICK c \in Int, e \in Int : c = Clamped(m, day) /\ e = Clamped(n, day)
    BY ClampedFacts, MonthOfFacts
<1>2. CASE m = n
    BY <1>1, <1>2
<1>3. CASE m # n
    <2>1. MonthStart[m + 1] \in Int /\ MonthStart[n] \in Int
        BY DEF Months
    <2>2. c < MonthStart[m + 1] /\ MonthStart[n] <= e
        BY <1>1, ClampedFacts
    <2>3. m + 1 = n \/ MonthStart[m + 1] < MonthStart[n]
        BY <1>3, MonthsInOrder DEF Months
    <2> QED BY <1>1, <2>1, <2>2, <2>3
<1> QED BY <1>2, <1>3

---------------------------------------------------------------------------
(* Occurrences. *)

\* The job's entry, which is fixed.
Entry ==
    /\ zone \in Zones
    /\ schedule \in Schedules
    /\ time \in Times

\* The instant at which the job fires on a date.
On(date) == ResolveLocal(date, time)

LEMMA EntryFacts ==
    ASSUME Entry
    PROVE  /\ time \in Int /\ 0 <= time /\ time < Day
           /\ schedule.repeat \in {"daily", "weekly", "monthly", "yearly"}
           /\ schedule.repeat = "weekly" => schedule.weekday \in 0..(DaysInWeek - 1)
           /\ schedule.repeat = "monthly" => schedule.day \in Nat \ {0}
           /\ schedule.repeat = "yearly" =>
                 schedule.month \in 1..MonthsInYear /\ schedule.day \in Nat \ {0}
<1>1. time \in Int /\ 0 <= time /\ time < Day
    BY NotificationAssumption, LocalTimeAssumption DEF Entry
<1>2. \/ schedule \in [repeat : {"daily"}]
      \/ schedule \in [repeat : {"weekly"}, weekday : 0..(DaysInWeek - 1)]
      \/ schedule \in [repeat : {"monthly"}, day : Nat \ {0}]
      \/ schedule \in [repeat : {"yearly"}, month : 1..MonthsInYear, day : Nat \ {0}]
    BY NotificationAssumption DEF Entry
<1> QED BY <1>1, <1>2

\* Dates that have passed fired, and dates to come have not.
LEMMA OnFacts ==
    ASSUME Entry, NEW d \in Int, NEW t \in Int
    PROVE  /\ On(d) \in Int
           /\ d < LocalDate(t) => On(d) <= t
           /\ LocalDate(t) < d => t < On(d)
<1>1. PICK p \in Int, local \in Int : p = d * Day /\ local = p + time /\ p <= local /\ local < p + Day
    BY EntryFacts, ZoneFacts DEF Entry
<1>2. On(d) = Instant(local)
    BY <1>1 DEF On, ResolveLocal, Instant
<1>3. On(d) \in Int
    BY <1>2, InstantFacts DEF Entry
<1>4. LocalDate(t) \in Int
    BY LocalDateFacts DEF Entry
<1>5. Instant(local) <= t => d <= LocalDate(t)
    BY <1>1, InstantNearItsDate DEF Entry
<1>6. t < Instant(local) => LocalDate(t) <= d
    BY <1>1, InstantNearItsDate DEF Entry
<1> QED BY <1>2, <1>3, <1>4, <1>5, <1>6

LEMMA OnOrder ==
    ASSUME Entry, NEW d \in Int, NEW e \in Int, d < e
    PROVE  On(d) < On(e)
<1>1. PICK p \in Int, q \in Int : p = d * Day /\ q = e * Day
    BY ZoneFacts DEF Entry
<1>2. p + Day <= q
    <2>1. (d + 1) * Day <= q
        BY <1>1, TimesMonotone, ZoneFacts DEF Entry
    <2>2. (d + 1) * Day = p + Day
        BY <1>1, ZoneFacts DEF Entry
    <2> QED BY <2>1, <2>2
<1>3. PICK x \in Int, y \in Int : x = p + time /\ y = q + time
    BY EntryFacts
<1>4. x + Day <= y
    BY <1>2, <1>3, EntryFacts, ZoneFacts DEF Entry
<1>5. On(d) = Instant(x) /\ On(e) = Instant(y)
    BY <1>1, <1>3 DEF On, ResolveLocal, Instant
<1> QED BY <1>4, <1>5, InstantOrder DEF Entry

\* The candidates of an instant are dates of the schedule, and none of its dates
\* to come is before all of those that are.
Complete(t) ==
    /\ \A c \in Candidates(t) : c \in Dates /\ Matches(c)
    /\ \A d \in Dates : Matches(d) /\ t < On(d) =>
           \E c \in Candidates(t) : t < On(c) /\ c <= d

LEMMA DailyComplete ==
    ASSUME Entry, NEW t \in Int, LocalDate(t) \in Dates, schedule.repeat = "daily"
    PROVE  Complete(t)
<1>1. PICK today \in Dates : today = LocalDate(t) /\ today \in Int
    BY MonthOfFacts
<1>2. Candidates(t) = Dates \cap {today, today + 1}
    BY <1>1 DEF Candidates
<1>3. \A d \in Dates : Matches(d)
    BY DEF Matches
<1>4. ASSUME NEW d \in Dates, t < On(d)
      PROVE  \E c \in Candidates(t) : t < On(c) /\ c <= d
    <2>1. d \in Int /\ today <= d
        BY <1>1, <1>4, OnFacts, MonthOfFacts
    <2>2. CASE d = today
        BY <1>2, <1>4, <2>1, <2>2
    <2>3. CASE d # today
        <3>1. today + 1 \in Dates /\ today + 1 <= d
            BY <1>1, <2>1, <2>3, NotificationAssumption DEF Dates
        <3>2. t < On(today + 1)
            BY <1>1, OnFacts
        <3> QED BY <1>2, <3>1, <3>2
    <2> QED BY <2>2, <2>3
<1> QED BY <1>2, <1>3, <1>4 DEF Complete

LEMMA WeeklyComplete ==
    ASSUME Entry, NEW t \in Int, LocalDate(t) \in Dates, schedule.repeat = "weekly"
    PROVE  Complete(t)
<1>0. DaysInWeek \in Nat \ {0}
    BY NotificationAssumption
<1>1. PICK today \in Dates : today = LocalDate(t) /\ today \in Int
    BY MonthOfFacts
<1>2. PICK w \in 0..(DaysInWeek - 1) : w = schedule.weekday
    BY EntryFacts
<1>3. PICK r \in 0..(DaysInWeek - 1), k \in Int :
          r = (w - today) % DaysInWeek /\ w - today = k * DaysInWeek + r
    <2>1. w - today \in Int
        BY <1>1
    <2> QED BY <1>0, <2>1, DivMod
<1>4. PICK first \in Int : first = today + r
    BY <1>1, <1>3
<1>5. Candidates(t) = Dates \cap {first, first + DaysInWeek}
    BY <1>1, <1>2, <1>3, <1>4 DEF Candidates
<1>6. \A d \in Int : Matches(d) <=> d % DaysInWeek = w
    BY <1>2 DEF Matches
<1>7. PICK kw \in Int : kw = k * DaysInWeek
    BY <1>0
<1>8. first = w - kw
    BY <1>0, <1>1, <1>2, <1>3, <1>4, <1>7
<1>9. Matches(first)
    <2>1. PICK n \in Int : n = -k
        OBVIOUS
    <2>2. first = n * DaysInWeek + w
        BY <1>0, <1>2, <1>7, <1>8, <2>1
    <2>3. first % DaysInWeek = w
        BY <1>0, <2>2, ModUnique
    <2> QED BY <1>6, <2>3
<1>10. Matches(first + DaysInWeek)
    <2>1. PICK n \in Int, next \in Int : n = 1 - k /\ next = first + DaysInWeek
        BY <1>0
    <2>2. next = n * DaysInWeek + w
        BY <1>0, <1>2, <1>7, <1>8, <2>1
    <2>3. next % DaysInWeek = w
        BY <1>0, <2>2, ModUnique
    <2> QED BY <1>6, <2>1, <2>3
<1>11. ASSUME NEW d \in Dates, Matches(d), t < On(d)
       PROVE  \E c \in Candidates(t) : t < On(c) /\ c <= d
    <2>1. d \in Int /\ today <= d
        BY <1>1, <1>11, OnFacts, MonthOfFacts
    <2>2. PICK j \in Int : d = j * DaysInWeek + w
        BY <1>0, <1>6, <1>11, <2>1, DivMod
    <2>3. PICK i \in Int, jw \in Int, iw \in Int :
              i = j + k /\ jw = j * DaysInWeek /\ iw = i * DaysInWeek /\ iw = jw + kw
        BY <1>0, <1>7
    <2>4. d = first + iw
        BY <1>2, <1>8, <2>1, <2>2, <2>3
    <2>5. i >= 0
        <3> SUFFICES ASSUME i <= -1 PROVE FALSE
            OBVIOUS
        <3>1. iw <= (-1) * DaysInWeek
            BY <1>0, <2>3, TimesMonotone
        <3> QED BY <1>0, <1>1, <1>3, <1>4, <2>1, <2>4, <3>1
    <2>6. CASE i = 0
        <3>1. d = first
            BY <1>0, <2>3, <2>4, <2>6
        <3> QED BY <1>5, <1>11, <2>1, <3>1
    <2>7. CASE i >= 1
        <3>1. 1 * DaysInWeek <= iw
            BY <1>0, <2>3, <2>7, TimesMonotone
        <3>2. PICK c \in Int : c = first + DaysInWeek /\ today < c /\ c <= d
            BY <1>0, <1>1, <1>3, <1>4, <2>4, <3>1
        <3>3. c \in Dates
            BY <1>1, <2>1, <3>2, NotificationAssumption DEF Dates
        <3>4. t < On(c)
            BY <1>1, <3>2, OnFacts
        <3> QED BY <1>5, <3>2, <3>3, <3>4
    <2> QED BY <2>5, <2>6, <2>7
<1> QED BY <1>5, <1>9, <1>10, <1>11 DEF Complete

LEMMA MonthlyComplete ==
    ASSUME Entry, NEW t \in Int, LocalDate(t) \in Dates, schedule.repeat = "monthly"
    PROVE  Complete(t)
<1>1. PICK today \in Dates : today = LocalDate(t) /\ today \in Int
    BY MonthOfFacts
<1>2. PICK day \in Nat \ {0} : day = schedule.day
    BY EntryFacts
<1>3. PICK m \in Months : m = MonthOf(today) /\ today < MonthStart[m + 1]
    BY MonthOfFacts
<1>4. Candidates(t) = Dates \cap {Clamped(n, day) : n \in {m, m + 1} \cap Months}
    BY <1>1, <1>2, <1>3 DEF Candidates
<1>5. \A d \in Dates : Matches(d) <=> IsDay(d, day)
    BY <1>2 DEF Matches
<1>6. \A c \in Candidates(t) : c \in Dates /\ Matches(c)
    BY <1>4, <1>5, ClampedFacts
<1>7. ASSUME NEW d \in Dates, Matches(d), t < On(d)
      PROVE  \E c \in Candidates(t) : t < On(c) /\ c <= d
    <2>1. d \in Int /\ today <= d
        BY <1>1, <1>7, OnFacts, MonthOfFacts
    <2>2. PICK n \in Months : n = MonthOf(d) /\ m <= n
        BY <1>3, <2>1, MonthOfFacts, MonthOfMonotone
    <2>3. d = Clamped(n, day)
        BY <1>5, <1>7, <2>2, IsDayIsClamped
    <2>4. CASE n = m
        <3>1. d \in Candidates(t)
            BY <1>4, <2>3, <2>4
        <3> QED BY <1>7, <2>1, <3>1
    <2>5. CASE n # m
        <3>1. PICK k \in Months : k = m + 1 /\ k <= n
            BY <2>2, <2>5, NotificationAssumption DEF Months
        <3>2. PICK c \in Dates : c = Clamped(k, day)
            BY ClampedFacts
        <3>3. c \in Int /\ c <= d
            BY <2>3, <3>1, <3>2, ClampedOrder, MonthOfFacts
        <3>4. today < c
            <4>1. MonthStart[k] <= c
                BY <3>2, ClampedFacts
            <4>2. MonthStart[k] \in Int
                BY NotificationAssumption DEF Months
            <4> QED BY <1>1, <1>3, <3>1, <3>3, <4>1, <4>2
        <3>5. t < On(c)
            BY <1>1, <3>3, <3>4, OnFacts
        <3>6. c \in Candidates(t)
            BY <1>4, <3>1, <3>2
        <3> QED BY <3>3, <3>5, <3>6
    <2> QED BY <2>4, <2>5
<1> QED BY <1>6, <1>7 DEF Complete

\* The months of a year's schedule.
LEMMA MonthOfYearFacts ==
    ASSUME NEW y \in Int, NEW month \in 1..MonthsInYear
    PROVE  /\ MonthOfYear(y, month) \in Int
           /\ MonthOfYear(y, month) % MonthsInYear = month - 1
           /\ y * MonthsInYear <= MonthOfYear(y, month)
<1>1. MonthsInYear \in Nat \ {0}
    BY NotificationAssumption
<1>2. PICK p \in Int, r \in 0..(MonthsInYear - 1), n \in Int :
          p = y * MonthsInYear /\ r = month - 1 /\ n = p + r
    BY <1>1
<1>3. MonthOfYear(y, month) = n
    BY <1>1, <1>2 DEF MonthOfYear
<1>4. n % MonthsInYear = r
    BY <1>1, <1>2, ModUnique
<1> QED BY <1>2, <1>3, <1>4

LEMMA YearlyComplete ==
    ASSUME Entry, NEW t \in Int, LocalDate(t) \in Dates, schedule.repeat = "yearly"
    PROVE  Complete(t)
<1>0. MonthsInYear \in Nat \ {0}
    BY NotificationAssumption
<1>1. PICK today \in Dates : today = LocalDate(t) /\ today \in Int
    BY MonthOfFacts
<1>2. PICK day \in Nat \ {0}, month \in 1..MonthsInYear :
          day = schedule.day /\ month = schedule.month
    BY EntryFacts
<1>3. PICK m \in Months : m = MonthOf(today) /\ today < MonthStart[m + 1]
    BY MonthOfFacts
<1>4. PICK y \in Int : y = YearOf(today) /\ y = m \div MonthsInYear
    BY <1>0, <1>3, DivMod DEF YearOf, Months
<1>5. Candidates(t) = Dates \cap
          {Clamped(n, day) : n \in {MonthOfYear(y, month), MonthOfYear(y + 1, month)} \cap Months}
    BY <1>1, <1>2, <1>4 DEF Candidates
<1>6. \A d \in Dates : Matches(d) <=> MonthOf(d) % MonthsInYear = month - 1 /\ IsDay(d, day)
    BY <1>2 DEF Matches
<1>7. \A c \in Candidates(t) : c \in Dates /\ Matches(c)
    <2> SUFFICES ASSUME NEW c \in Candidates(t) PROVE c \in Dates /\ Matches(c)
        OBVIOUS
    <2>1. PICK n \in Months : /\ c = Clamped(n, day)
                              /\ n \in {MonthOfYear(y, month), MonthOfYear(y + 1, month)}
        BY <1>5
    <2>2. n % MonthsInYear = month - 1
        BY <2>1, MonthOfYearFacts
    <2> QED BY <1>6, <2>1, <2>2, ClampedFacts
<1>8. ASSUME NEW d \in Dates, Matches(d), t < On(d)
      PROVE  \E c \in Candidates(t) : t < On(c) /\ c <= d
    <2>1. d \in Int /\ today <= d
        BY <1>1, <1>8, OnFacts, MonthOfFacts
    <2>2. PICK n \in Months : n = MonthOf(d) /\ m <= n
        BY <1>3, <2>1, MonthOfFacts, MonthOfMonotone
    <2>3. d = Clamped(n, day) /\ n % MonthsInYear = month - 1
        BY <1>6, <1>8, <2>2, IsDayIsClamped
    <2>4. m \in Int /\ n \in Int
        BY NotificationAssumption DEF Months
    <2>5. PICK z \in Int : n = z * MonthsInYear + (month - 1)
        <3>1. PICK z \in Int : n = z * MonthsInYear + (n % MonthsInYear)
            BY <1>0, <2>4, DivMod
        <3> QED BY <2>3, <3>1
    <2>6. PICK zm \in Int, ym \in Int : zm = z * MonthsInYear /\ ym = y * MonthsInYear
        BY <1>0
    <2>7. ym <= m /\ m < ym + MonthsInYear
        BY <1>0, <1>4, <2>4, <2>6, DivBounds
    <2>8. y <= z
        <3> SUFFICES ASSUME z + 1 <= y PROVE FALSE
            OBVIOUS
        <3>1. (z + 1) * MonthsInYear <= ym
            BY <1>0, <2>6, TimesMonotone
        <3>2. (z + 1) * MonthsInYear = zm + MonthsInYear
            BY <1>0, <2>6
        <3> QED BY <1>0, <1>2, <2>2, <2>4, <2>5, <2>6, <2>7, <3>1, <3>2
    <2>9. CASE z = y
        <3>1. n = MonthOfYear(y, month)
            BY <1>0, <1>2, <2>5, <2>6, <2>9 DEF MonthOfYear
        <3>2. d \in Candidates(t)
            BY <1>5, <2>3, <3>1
        <3> QED BY <1>8, <2>1, <3>2
    <2>10. CASE y + 1 <= z
        <3>1. (y + 1) * MonthsInYear = ym + MonthsInYear
            BY <1>0, <2>6
        <3>2. (y + 1) * MonthsInYear <= zm
            BY <1>0, <2>6, <2>10, TimesMonotone
        <3>3. PICK k \in Int : k = MonthOfYear(y + 1, month) /\ k = ym + MonthsInYear + (month - 1)
            BY <1>0, <1>2, <2>6, <3>1 DEF MonthOfYear
        <3>4. m < k /\ k <= n
            BY <1>0, <1>2, <2>4, <2>5, <2>6, <2>7, <3>1, <3>2, <3>3
        <3>5. k \in Months
            BY <2>4, <3>4, NotificationAssumption DEF Months
        <3>6. PICK c \in Dates : c = Clamped(k, day)
            BY <3>5, ClampedFacts
        <3>7. c \in Int /\ c <= d
            BY <2>3, <3>4, <3>5, <3>6, ClampedOrder, MonthOfFacts
        <3>8. today < c
            <4>1. MonthStart[k] <= c
                BY <3>5, <3>6, ClampedFacts
            <4>2. m + 1 = k \/ MonthStart[m + 1] < MonthStart[k]
                BY <3>4, <3>5, MonthsInOrder, NotificationAssumption DEF Months
            <4>3. MonthStart[k] \in Int /\ MonthStart[m + 1] \in Int
                BY <3>5, NotificationAssumption DEF Months
            <4> QED BY <1>1, <1>3, <3>7, <4>1, <4>2, <4>3
        <3>9. t < On(c)
            BY <1>1, <3>7, <3>8, OnFacts
        <3>10. c \in Candidates(t)
            BY <1>5, <3>3, <3>5, <3>6
        <3> QED BY <3>7, <3>9, <3>10
    <2> QED BY <2>8, <2>9, <2>10
<1> QED BY <1>7, <1>8 DEF Complete

\* What next_occurrence finds: the first of the schedule's instants after t, if
\* the calendar has one.
FirstAfter(t, next) ==
    LET later == {d \in Dates : On(d) > t /\ Matches(d)}
    IN  later # {} =>
            /\ next \in {On(d) : d \in later}
            /\ \A d \in later : next <= On(d)

LEMMA NeverFacts ==
    ASSUME Entry
    PROVE  /\ Never \in Int
           /\ MonthStart[0] <= LocalDate(Never)
           /\ \A d \in Dates : On(d) <= Never
<1> USE ZoneFacts DEF Entry
<1>1. PICK e \in Int : e = MonthStart[LastMonth + 1]
    BY NotificationAssumption
<1>2. PICK p \in Int : p = e * Day
    OBVIOUS
<1>3. Never = p + 2 * Day
    BY <1>1, <1>2 DEF Never
<1>4. /\ -Day <= zone.before /\ zone.before <= Day
      /\ -Day <= zone.after /\ zone.after <= Day
    BY CalendarAssumption
<1>5. MonthStart[0] \in Int /\ MonthStart[0] <= e
    BY <1>1, MonthsInOrder, NotificationAssumption
<1>6. LocalDate(Never) \in Int /\ e <= LocalDate(Never)
    <2>1. PICK n \in Int : n = Never
        BY <1>3
    <2>2. e * Day <= Local(n)
        BY <1>2, <1>3, <1>4, <2>1 DEF Local, Offset
    <2> QED BY <2>1, <2>2, LocalDateOrder, LocalDateFacts
<1>7. ASSUME NEW d \in Dates PROVE On(d) <= Never
    <2>1. d \in Int /\ d + 1 <= e
        BY <1>1, NotificationAssumption DEF Dates
    <2>2. (d + 1) * Day <= p
        BY <1>2, <2>1, TimesMonotone
    <2>3. PICK q \in Int : q = d * Day /\ q + Day <= p
        BY <2>1, <2>2
    <2>4. PICK local \in Int : local = q + time /\ local < p
        BY <2>3, EntryFacts
    <2>5. On(d) = Instant(local)
        BY <2>3, <2>4 DEF On, ResolveLocal, Instant
    <2> QED BY <1>3, <1>4, <2>4, <2>5 DEF Instant
<1> QED BY <1>3, <1>5, <1>6, <1>7

LEMMA NextOccurrenceFacts ==
    ASSUME Entry, NEW t \in Int, MonthStart[0] <= LocalDate(t)
    PROVE  /\ NextOccurrence(t) \in Int
           /\ FirstAfter(t, NextOccurrence(t))
           /\ NextOccurrence(t) <= Never
           /\ NextOccurrence(t) = Never \/ t < NextOccurrence(t)
<1> DEFINE later == {d \in Dates : On(d) > t /\ Matches(d)}
<1>1. Never \in Int
    BY NeverFacts
<1>2. After(t) = {c \in Candidates(t) : On(c) > t}
    BY DEF After, On
<1>3. After(t) \subseteq Dates
    BY <1>2 DEF Candidates
<1>4. Dates \subseteq Int /\ MonthStart[0] \in Int
    BY NotificationAssumption DEF Dates
<1>5. ASSUME NEW c \in After(t) PROVE t < On(c)
    BY <1>2, <1>3, <1>4, <1>5, OnFacts
<1>6. CASE LocalDate(t) \notin Dates
    <2>1. \A d \in Dates : d < LocalDate(t)
        BY <1>6, LocalDateFacts, NotificationAssumption DEF Dates, Entry
    <2>2. \A d \in Dates : ~(On(d) > t)
        BY <1>4, <2>1, OnFacts
    <2>3. After(t) = {} /\ later = {}
        BY <1>2, <1>3, <2>2
    <2>4. NextOccurrence(t) = Never
        BY <2>3 DEF NextOccurrence
    <2> QED BY <1>1, <2>3, <2>4 DEF FirstAfter
<1>7. CASE LocalDate(t) \in Dates
    <2>1. Complete(t)
        BY <1>7, EntryFacts, DailyComplete, WeeklyComplete, MonthlyComplete, YearlyComplete
    <2>2. ASSUME NEW d \in later PROVE \E c \in After(t) : c <= d
        <3>1. t < On(d)
            BY <1>4, OnFacts
        <3> QED BY <1>2, <1>4, <2>1, <3>1, OnFacts DEF Complete, Candidates
    <2>3. After(t) \subseteq later
        BY <1>2, <1>3, <2>1 DEF Complete
    <2>4. CASE After(t) = {}
        <3>1. later = {}
            BY <2>2, <2>4
        <3>2. NextOccurrence(t) = Never
            BY <2>4 DEF NextOccurrence
        <3> QED BY <1>1, <3>1, <3>2 DEF FirstAfter
    <2>5. CASE After(t) # {}
        <3>1. \E d \in After(t) : \A e \in After(t) : d <= e
            <4> DEFINE Shifted == {n \in Nat : MonthStart[0] + n \in After(t)}
            <4>1. Shifted \subseteq Nat /\ Shifted # {}
                <5>1. PICK c \in After(t) : TRUE
                    BY <2>5
                <5>2. c - MonthStart[0] \in Nat /\ MonthStart[0] + (c - MonthStart[0]) = c
                    BY <1>3, <5>1, NotificationAssumption DEF Dates
                <5> QED BY <5>1, <5>2
            <4>2. PICK n \in Shifted : \A k \in Shifted : n <= k
                BY <4>1, LeastNat
            <4>3. ASSUME NEW e \in After(t) PROVE MonthStart[0] + n <= e
                <5>1. /\ e \in Int /\ e - MonthStart[0] \in Nat
                      /\ MonthStart[0] + (e - MonthStart[0]) = e
                    BY <1>3, NotificationAssumption DEF Dates
                <5>2. n <= e - MonthStart[0]
                    BY <4>2, <5>1
                <5> QED BY <1>4, <5>1, <5>2
            <4> QED BY <4>2, <4>3
        <3>2. PICK c \in After(t) : /\ NextOccurrence(t) = On(c)
                                    /\ \A e \in After(t) : c <= e
            BY <2>5, <3>1 DEF NextOccurrence, On
        <3>3. c \in Int /\ c \in Dates /\ c \in later /\ On(c) \in Int
            BY <1>3, <1>4, <2>3, OnFacts
        <3>4. ASSUME NEW d \in later PROVE On(c) <= On(d)
            <4>1. PICK e \in After(t) : e <= d
                BY <2>2
            <4>2. c <= d /\ d \in Int
                BY <1>3, <1>4, <3>2, <3>3, <4>1
            <4> QED BY <3>3, <4>2, OnFacts, OnOrder
        <3>5. FirstAfter(t, On(c))
            BY <3>3, <3>4 DEF FirstAfter
        <3> QED BY <1>5, <3>2, <3>3, <3>5, NeverFacts
    <2> QED BY <2>4, <2>5
<1> QED BY <1>6, <1>7

---------------------------------------------------------------------------
(* The job. *)

\* The due instant is what next_occurrence gives for the one before it, and the
\* year of the message that of the due instant when the job is in time.
NotifierInv ==
    /\ Entry
    /\ SchedulerTypeOK
    /\ Timing
    /\ broken \in BOOLEAN
    /\ \E f \in Int : /\ fired = f
                      /\ fireAt = NextOccurrence(f)
                      /\ MonthStart[0] <= LocalDate(f)
    /\ \E f \in Int : /\ fireAt = f
                      /\ stage = "acted" /\ late = 0 /\ steps = 0 =>
                            year = YearOf(LocalDate(f))

LEMMA NotifierInit ==
    Init => NotifierInv
<1> SUFFICES ASSUME Init PROVE NotifierInv
    OBVIOUS
<1>1. Entry /\ now \in Int /\ FirstInstant <= now /\ now <= Never
    <2>1. Entry /\ now \in Int /\ FirstInstant <= now /\ now <= LatestStart
        BY SchedulerAssumption, NotificationAssumption DEF Init, Entry
    <2> QED BY <2>1, NeverFacts, NotificationAssumption, CalendarAssumption
<1>2. MonthStart[0] <= LocalDate(now)
    <2>1. PICK p \in Int : p = MonthStart[0] * Day
        BY NotificationAssumption, ZoneFacts, <1>1 DEF Entry
    <2>2. zone.before \in Int /\ zone.after \in Int /\ FirstInstant \in Int
        BY <1>1, ZoneFacts, SchedulerAssumption DEF Entry
    <2>3. p <= FirstInstant + zone.before /\ p <= FirstInstant + zone.after
        BY <1>1, <2>1, CalendarAssumption DEF Entry
    <2>4. p <= Local(now)
        BY <1>1, <2>2, <2>3 DEF Local, Offset
    <2> QED BY <1>1, <2>1, <2>4, LocalDateOrder, NotificationAssumption DEF Entry
<1>3. PICK due \in Int : due = NextOccurrence(now) /\ due >= now
    BY <1>1, <1>2, NextOccurrenceFacts
<1>4. ScheduleAt(due) /\ broken = FALSE
    BY <1>3 DEF Init
<1>5. SchedulerTypeOK /\ Timing
    BY <1>1, <1>3, <1>4, ScheduleFacts
<1>6. fired = now /\ fireAt = due /\ stage = "sleep"
    BY <1>4 DEF ScheduleAt
<1> QED BY <1>1, <1>2, <1>3, <1>4, <1>5, <1>6 DEF NotifierInv

\* The entry is fixed, and with it what is derived from it.
LEMMA EntryFixed ==
    ASSUME UNCHANGED entryVars, NEW x \in Int
    PROVE  /\ LocalDate(x)' = LocalDate(x)
           /\ NextOccurrence(x)' = NextOccurrence(x)
<1> USE DEF entryVars, ResolveLocal, LocalDate, Offset
<1>1. LocalDate(x)' = LocalDate(x)
    OBVIOUS
<1>2. Candidates(x)' = Candidates(x)
    BY DEF Candidates
<1>3. After(x)' = After(x)
    BY <1>2 DEF After
<1>4. NextOccurrence(x)' = NextOccurrence(x)
    BY <1>3 DEF NextOccurrence
<1> QED BY <1>1, <1>4

\* A step that leaves the job's instants and the year alone.
LEMMA NotifierAside ==
    ASSUME NotifierInv, SchedulerTypeOK', Timing', UNCHANGED <<entryVars, year>>,
           broken' \in BOOLEAN, fireAt' = fireAt, fired' = fired,
           \/ stage' # "acted"
           \/ stage' = stage /\ (late' = 0 => late = 0) /\ (steps' = 0 => steps = 0)
    PROVE  NotifierInv'
<1>1. PICK f \in Int : /\ fired = f /\ fireAt = NextOccurrence(f)
                       /\ MonthStart[0] <= LocalDate(f)
    BY DEF NotifierInv
<1>2. PICK g \in Int : /\ fireAt = g
                       /\ stage = "acted" /\ late = 0 /\ steps = 0 =>
                             year = YearOf(LocalDate(g))
    BY DEF NotifierInv
<1>3. LocalDate(f)' = LocalDate(f) /\ NextOccurrence(f)' = NextOccurrence(f)
    BY EntryFixed
<1>4. LocalDate(g)' = LocalDate(g)
    BY EntryFixed
<1>5. YearOf(LocalDate(g))' = YearOf(LocalDate(g))
    BY <1>4 DEF YearOf, MonthOf
<1>6. Entry'
    BY DEF Entry, entryVars, NotifierInv
<1> QED BY <1>1, <1>2, <1>3, <1>5, <1>6 DEF NotifierInv

LEMMA NotifierStep ==
    NotifierInv /\ [Next]_vars => NotifierInv'
<1> SUFFICES ASSUME NotifierInv, [Next]_vars PROVE NotifierInv'
    OBVIOUS
<1>1. SchedulerTypeOK /\ Timing /\ Entry /\ broken \in BOOLEAN
    BY DEF NotifierInv
<1>2. ASSUME UNCHANGED schedulerVars PROVE SchedulerTypeOK' /\ Timing'
    BY <1>1, <1>2 DEF SchedulerTypeOK, Timing, schedulerVars, clockVars, jobVars
<1>3. CASE Action
    <2>1. /\ SchedulerTypeOK' /\ Timing' /\ fireAt' = fireAt /\ fired' = fired
          /\ stage' = "acted" /\ now' = now /\ late' = late /\ steps' = steps
        BY <1>1, <1>3, FireFacts DEF Action, Fire, clockVars
    <2>2. /\ UNCHANGED entryVars /\ broken' \in BOOLEAN /\ Entry'
          /\ year' = YearOf(LocalDate(now))
        BY <1>1, <1>3 DEF Action, FiredIn, entryVars, Entry
    <2>3. late' = 0 /\ steps' = 0 => now = fireAt
        BY <2>1 DEF Timing, SchedulerTypeOK
    <2>4. PICK f \in Int : /\ fired = f /\ fireAt = NextOccurrence(f)
                           /\ MonthStart[0] <= LocalDate(f)
        BY DEF NotifierInv
    <2>5. PICK g \in Int : fireAt = g
        BY <1>1 DEF SchedulerTypeOK
    <2>6. /\ LocalDate(f)' = LocalDate(f) /\ NextOccurrence(f)' = NextOccurrence(f)
          /\ LocalDate(g)' = LocalDate(g)
        BY <2>2, EntryFixed
    <2>7. YearOf(LocalDate(g))' = YearOf(LocalDate(g))
        BY <2>6 DEF YearOf, MonthOf
    <2> QED BY <2>1, <2>2, <2>3, <2>4, <2>5, <2>6, <2>7 DEF NotifierInv
<1>4. ASSUME NEW c \in Clients, NEW accepted \in BOOLEAN, Publish(c, accepted)
      PROVE  NotifierInv'
    <2>1. UNCHANGED <<schedulerVars, entryVars, year, broken>>
        BY <1>4 DEF Publish, failureVars
    <2> QED BY <1>1, <1>2, <2>1, NotifierAside DEF schedulerVars, clockVars, jobVars
<1>5. CASE Reschedule
    <2>1. PICK f \in Int : /\ fired = f /\ fireAt = NextOccurrence(f)
                           /\ MonthStart[0] <= LocalDate(f)
        BY DEF NotifierInv
    <2>2. PICK g \in Int : fireAt = g
        BY <1>1 DEF SchedulerTypeOK
    <2>3. g <= Never /\ (g = Never \/ f < g)
        BY <1>1, <2>1, <2>2, NextOccurrenceFacts
    <2>4. MonthStart[0] <= LocalDate(g)
        <3>1. CASE g = Never
            BY <1>1, <3>1, NeverFacts
        <3>2. CASE f < g
            <4>1. /\ LocalDate(f) <= LocalDate(g) /\ MonthStart[0] \in Int
                  /\ LocalDate(f) \in Int /\ LocalDate(g) \in Int
                BY <1>1, <3>2, LocalDateMonotone, LocalDateFacts, NotificationAssumption DEF Entry
            <4> QED BY <2>1, <4>1
        <3> QED BY <2>3, <3>1, <3>2
    <2>5. PICK next \in Int : next = NextOccurrence(g) /\ next >= fireAt
        BY <1>1, <2>2, <2>3, <2>4, NextOccurrenceFacts
    <2>6. Rearm(next)
        BY <1>5, <2>2, <2>5 DEF Reschedule
    <2>7. /\ SchedulerTypeOK' /\ Timing' /\ fireAt' = next /\ fired' = g
        BY <1>1, <2>2, <2>5, <2>6, RearmFacts
    <2>8. /\ UNCHANGED entryVars /\ broken' \in BOOLEAN /\ Entry' /\ stage' = "sleep"
        BY <1>1, <1>5 DEF Reschedule, Rearm, failureVars, entryVars, Entry
    <2>9. LocalDate(g)' = LocalDate(g) /\ NextOccurrence(g)' = NextOccurrence(g)
        BY <2>8, EntryFixed
    <2> QED BY <2>4, <2>5, <2>7, <2>8, <2>9 DEF NotifierInv
<1>6. CASE Return
    <2>1. /\ SchedulerTypeOK' /\ Timing' /\ fireAt' = fireAt /\ fired' = fired
        BY <1>1, <1>6, AroundFacts DEF Return
    <2>2. UNCHANGED <<entryVars, year, broken>> /\ stage' = "ended"
        BY <1>6 DEF Return, End, failureVars, actionVars
    <2> QED BY <1>1, <2>1, <2>2, NotifierAside
<1>7. CASE Environment
    <2>1. ASSUME NEW c \in Clients, Connect(c) \/ Disconnect(c)
          PROVE  NotifierInv'
        <3>1. UNCHANGED <<schedulerVars, entryVars, year, broken>>
            BY <2>1 DEF Connect, Disconnect, failureVars, actionVars
        <3> QED BY <1>1, <1>2, <3>1, NotifierAside DEF schedulerVars, clockVars, jobVars
    <2>2. ASSUME NEW failure \in BOOLEAN, Stop(failure)
          PROVE  NotifierInv'
        <3>1. /\ SchedulerTypeOK' /\ Timing' /\ fireAt' = fireAt /\ fired' = fired
            BY <1>1, <2>2, AroundFacts DEF Stop
        <3>2. UNCHANGED <<entryVars, year, broken, stage, late, steps>>
            BY <2>2 DEF Stop, Cancel, actionVars, clockVars, jobVars
        <3> QED BY <1>1, <3>1, <3>2, NotifierAside
    <2>3. CASE Poison
        <3>1. UNCHANGED <<schedulerVars, entryVars, year>> /\ broken' \in BOOLEAN
            BY <2>3 DEF Poison, actionVars
        <3> QED BY <1>1, <1>2, <3>1, NotifierAside DEF schedulerVars, clockVars, jobVars
    <2>4. CASE Clock
        <3>1. /\ SchedulerTypeOK' /\ Timing' /\ fireAt' = fireAt /\ fired' = fired
            BY <1>1, <2>4, AroundFacts DEF Clock
        <3>2. UNCHANGED <<entryVars, year, broken, stage>>
            BY <2>4 DEF Clock, Tick, StepBack, failureVars, actionVars, jobVars
        <3>3. (late' = 0 => late = 0) /\ (steps' = 0 => steps = 0)
            BY <1>1, <2>4 DEF Clock, Tick, StepBack, SchedulerTypeOK
        <3> QED BY <1>1, <3>1, <3>2, <3>3, NotifierAside
    <2> QED BY <1>7, <2>1, <2>2, <2>3, <2>4 DEF Environment
<1>8. CASE UNCHANGED vars
    <2>1. UNCHANGED <<schedulerVars, entryVars, year, broken>>
        BY <1>8 DEF vars, failureVars, actionVars
    <2> QED BY <1>1, <1>2, <2>1, NotifierAside DEF schedulerVars, clockVars, jobVars
<1> QED
    BY <1>3, <1>4, <1>5, <1>6, <1>7, <1>8 DEF Next

\* No date of the schedule is skipped and none fires twice, through months and
\* years of any lengths and the gaps and folds of any zone of the assumptions,
\* however late the job is and however the wall clock is set back: each due
\* instant is that of the first matching date after the one before.
THEOREM FiresOnEveryDate ==
    Spec => []FiresOnEachDate
<1>1. NotifierInv => FiresOnEachDate
    <2> SUFFICES ASSUME NotifierInv PROVE FiresOnEachDate
        OBVIOUS
    <2>1. PICK f \in Int : /\ fired = f /\ fireAt = NextOccurrence(f)
                           /\ MonthStart[0] <= LocalDate(f)
        BY DEF NotifierInv
    <2>2. FirstAfter(f, NextOccurrence(f))
        BY <2>1, NextOccurrenceFacts DEF NotifierInv
    <2> QED BY <2>1, <2>2 DEF FirstAfter, FiresOnEachDate, On
<1> QED
    BY <1>1, NotifierInit, NotifierStep, PTL DEF Spec

\* A job that is in time formats its message with the year of the date it fires
\* for, on the first day of a year too.
THEOREM NamesTheYear ==
    Spec => []YearOfTheOccurrence
<1>1. NotifierInv => YearOfTheOccurrence
    BY DEF NotifierInv, YearOfTheOccurrence
<1> QED
    BY <1>1, NotifierInit, NotifierStep, PTL DEF Spec
=============================================================================
