--------------------------- MODULE Notification ---------------------------
(***************************************************************************)
(* One scheduled notification of src/src/notification/mod.rs: when it      *)
(* fires, in the configured zone and the calendar, and what its action     *)
(* publishes to whom.  An entry of the configuration gives one such job, a *)
(* weekly entry one for each of its weekdays.                              *)
(*                                                                         *)
(* Dates are day numbers (LocalTime).  Months are numbered through the     *)
(* years, month m is in year m \div MonthsInYear, and the calendar ends    *)
(* with LastMonth, as jiff's does with the year 9999.                      *)
(***************************************************************************)
EXTENDS LocalTime, Scheduler

CONSTANTS
    DaysInWeek,    \* DAYS_IN_WEEK
    MonthsInYear,
    LastMonth,     \* the last month of the calendar
    MonthStart,    \* the first date of each month, and of the one after the last
    Schedules,     \* the schedules the configuration may have
    Times,         \* the fire times of day it may have
    Clients,       \* the client IDs
    LatestStart,   \* bound: the last instant the program may start at
    MaxChanges     \* bound: how often a device connects or disconnects

Months == 0..LastMonth
Dates == MonthStart[0]..(MonthStart[LastMonth + 1] - 1)

ASSUME NotificationAssumption ==
    /\ DaysInWeek \in Nat \ {0}
    /\ MonthsInYear \in Nat \ {0}
    /\ LastMonth \in Nat
    /\ MonthStart \in [0..(LastMonth + 1) -> Int]
    /\ \A m \in Months : MonthStart[m] < MonthStart[m + 1]
    /\ Schedules \subseteq
          [repeat : {"daily"}]
          \cup [repeat : {"weekly"}, weekday : 0..(DaysInWeek - 1)]
          \cup [repeat : {"monthly"}, day : Nat \ {0}]
          \cup [repeat : {"yearly"}, month : 1..MonthsInYear, day : Nat \ {0}]
    /\ Times \in SUBSET (0..(Day - 1))
    /\ LatestStart \in Int
    /\ MaxChanges \in Nat

VARIABLES
    schedule,   \* the Schedule of the job, fixed
    time,       \* its fire time, fixed
    connected,  \* the registry's clients
    broken,     \* the registry's lock is poisoned
    failed,     \* a failure has been reported
    year,       \* the year in the message of the last notification
    pending,    \* the clients the running action has still to publish to
    changes,    \* counter for MaxChanges
    got,        \* history: clients the last notification was published to
    refused,    \* history: clients for which the broker refused it
    stayed      \* history: clients connected since it fired

entryVars == <<zone, schedule, time>>
deviceVars == <<connected, changes, stayed>>
failureVars == <<broken, failed>>
actionVars == <<year, pending, got, refused>>
vars == <<schedulerVars, entryVars, deviceVars, failureVars, actionVars>>

---------------------------------------------------------------------------
(* The calendar. *)

MonthOf(date) ==
    CHOOSE m \in Months : MonthStart[m] <= date /\ date < MonthStart[m + 1]

DaysInMonth(m) == MonthStart[m + 1] - MonthStart[m]

YearOf(date) == MonthOf(date) \div MonthsInYear

MonthOfYear(y, month) == y * MonthsInYear + month - 1

Earlier(a, b) == IF a < b THEN a ELSE b

\* Mutant of Clamped: a day past the end of the month spills into the next.
Spilled(m, day) == MonthStart[m] + day - 1

\* A day past the end of the month is its last day.
Clamped(m, day) == MonthStart[m] + Earlier(day, DaysInMonth(m)) - 1

---------------------------------------------------------------------------
(* Occurrences. *)

\* The dates next_..._occurrence tries: this period's and the next one's.
Candidates(from) ==
    LET today == LocalDate(from)
        thisMonth == MonthOf(today)
        thisYear == YearOf(today)
    IN  Dates \cap
        CASE schedule.repeat = "daily"   -> {today, today + 1}
          [] schedule.repeat = "weekly"  ->
                LET thisWeek == today + ((schedule.weekday - today) % DaysInWeek)
                IN  {thisWeek, thisWeek + DaysInWeek}
          [] schedule.repeat = "monthly" ->
                {Clamped(m, schedule.day) : m \in {thisMonth, thisMonth + 1} \cap Months}
          [] schedule.repeat = "yearly"  ->
                {Clamped(m, schedule.day) :
                    m \in {MonthOfYear(thisYear, schedule.month),
                           MonthOfYear(thisYear + 1, schedule.month)} \cap Months}

\* Timestamp::MAX
Never == (MonthStart[LastMonth + 1] + 2) * Day

\* The calendar holds the date of every instant the wall clock may show, but for
\* those after its end, in every zone; no offset exceeds a day.
ASSUME CalendarAssumption ==
    /\ LatestStart <= Never
    /\ \A z \in Zones : \A offset \in {z.before, z.after} :
          /\ -Day <= offset /\ offset <= Day
          /\ MonthStart[0] * Day <= FirstInstant + offset

\* The candidates whose fire time is after `from`, which is what first_after
\* looks for.
After(from) == {date \in Candidates(from) : ResolveLocal(date, time) > from}

NextOccurrence(from) ==
    IF After(from) = {}
    THEN Never
    ELSE ResolveLocal(CHOOSE d \in After(from) : \A e \in After(from) : d <= e, time)

---------------------------------------------------------------------------
(* The job. *)

\* ScheduledNotifier::start, at any instant, for an enabled entry that parses;
\* the broker is up, so devices may have connected.
Init ==
    /\ zone \in Zones
    /\ schedule \in Schedules
    /\ time \in Times
    /\ now \in FirstInstant..LatestStart
    /\ ScheduleAt(NextOccurrence(now))
    /\ connected \in SUBSET Clients
    /\ broken = FALSE
    /\ failed = FALSE
    /\ year = 0
    /\ pending = {}
    /\ changes = 0
    /\ got = {}
    /\ refused = {}
    /\ stayed = {}

\* Mutant of FiredIn: the year of the instant the job was armed at.
ArmedIn == YearOf(LocalDate(fired))

\* The year the message is formatted with: that of the clock when it fires.
FiredIn == YearOf(LocalDate(now))

\* The action begins: the message is built for the current year, and the
\* devices connected at this moment are those it goes to; a poisoned registry
\* is reported, which cancels the schedule, and gives none.
Action ==
    /\ Fire(broken)
    /\ year' = FiredIn
    /\ pending' = IF broken THEN {} ELSE connected
    /\ failed' = (failed \/ broken)
    /\ got' = {}
    /\ refused' = {}
    /\ stayed' = pending'
    /\ UNCHANGED <<entryVars, connected, changes, broken>>

\* Mutant of Publish: the first failure ends the loop.
PublishOrReturn(c, accepted) ==
    /\ stage = "acted" /\ c \in pending
    /\ pending' = IF accepted /\ ~failed THEN pending \ {c} ELSE {}
    /\ IF accepted /\ ~failed
       THEN got' = got \cup {c} /\ UNCHANGED refused
       ELSE refused' = refused \cup {c} /\ UNCHANGED got
    /\ UNCHANGED <<schedulerVars, entryVars, deviceVars, failureVars, year>>

\* The next client, in any order (the code sorts them).  publish_notification does
\* nothing once a failure is reported; a publish that fails is only logged.
Publish(c, accepted) ==
    /\ stage = "acted" /\ c \in pending
    /\ pending' = pending \ {c}
    /\ IF accepted /\ ~failed
       THEN got' = got \cup {c} /\ UNCHANGED refused
       ELSE refused' = refused \cup {c} /\ UNCHANGED got
    /\ UNCHANGED <<schedulerVars, entryVars, deviceVars, failureVars, year>>

\* The action has returned: the next occurrence after the one that was due.
Reschedule ==
    /\ pending = {}
    /\ Rearm(NextOccurrence(fireAt))
    /\ UNCHANGED <<entryVars, deviceVars, failureVars, actionVars>>

\* An action that has started is never interrupted.
Return ==
    /\ pending = {}
    /\ End
    /\ UNCHANGED <<entryVars, deviceVars, failureVars, actionVars>>

Connect(c) ==
    /\ c \notin connected /\ changes < MaxChanges
    /\ changes' = changes + 1
    /\ connected' = connected \cup {c}
    /\ UNCHANGED <<schedulerVars, entryVars, stayed, failureVars, actionVars>>

Disconnect(c) ==
    /\ c \in connected /\ changes < MaxChanges
    /\ changes' = changes + 1
    /\ connected' = connected \ {c}
    /\ stayed' = stayed \ {c}
    /\ UNCHANGED <<schedulerVars, entryVars, failureVars, actionVars>>

\* Scheduler::cancel, by a shutdown or because another component has failed.
Stop(failure) ==
    /\ Cancel
    /\ failed' = (failed \/ failure)
    /\ UNCHANGED <<entryVars, deviceVars, broken, actionVars>>

\* A thread panicked while it held the registry's lock.
Poison ==
    /\ ~broken
    /\ broken' = TRUE
    /\ UNCHANGED <<schedulerVars, entryVars, deviceVars, failed, actionVars>>

Clock ==
    /\ Tick \/ \E amount \in StepsBack : StepBack(amount)
    /\ UNCHANGED <<entryVars, deviceVars, failureVars, actionVars>>

\* What happens around the job, until it ends.
Environment ==
    /\ stage # "ended"
    /\ \/ \E c \in Clients : Connect(c) \/ Disconnect(c)
       \/ \E failure \in BOOLEAN : Stop(failure)
       \/ Poison
       \/ Clock

Next ==
    \/ Action
    \/ \E c \in Clients, accepted \in BOOLEAN : Publish(c, accepted)
    \/ Reschedule
    \/ Return
    \/ Environment

Spec == Init /\ [][Next]_vars

---------------------------------------------------------------------------
(* Properties. *)

DayOfMonth(date) == date - MonthStart[MonthOf(date)] + 1

\* "A monthly day past the end of a month fires on its last day" (README.md).
IsDay(date, day) ==
    \/ DayOfMonth(date) = day
    \/ date + 1 = MonthStart[MonthOf(date) + 1] /\ DayOfMonth(date) < day

\* The dates on which the notification is to fire, as README.md describes them.
Matches(date) ==
    CASE schedule.repeat = "daily"   -> TRUE
      [] schedule.repeat = "weekly"  -> date % DaysInWeek = schedule.weekday
      [] schedule.repeat = "monthly" -> IsDay(date, schedule.day)
      [] schedule.repeat = "yearly"  ->
            /\ MonthOf(date) % MonthsInYear = schedule.month - 1
            /\ IsDay(date, schedule.day)

\* No date is skipped and none fires twice: the due instant is that of the first
\* matching date to come after the one that last fired (or the start), through
\* months and years of different lengths, gaps and folds of the local time,
\* late actions and a clock that is set back.
FiresOnEachDate ==
    LET later == {d \in Dates : ResolveLocal(d, time) > fired /\ Matches(d)}
    IN  later # {} =>
            /\ fireAt \in {ResolveLocal(d, time) : d \in later}
            /\ \A d \in later : fireAt <= ResolveLocal(d, time)

\* The message names the year of the occurrence, on the first day of a year
\* too, when the job fires in time.
YearOfTheOccurrence ==
    stage = "acted" /\ late = 0 /\ steps = 0 => year = YearOf(LocalDate(fireAt))

\* A device that stays connected while the action runs is not left out because
\* others disconnect or the broker refuses what is published to them.
NoDeviceLeftOut ==
    stage = "acted" /\ pending = {} => stayed \subseteq got \cup refused

\* The inductive form: whoever stayed has its notification or is still to get
\* it.
HeardOrPending ==
    stage = "acted" => stayed \subseteq got \cup refused \cup pending
===========================================================================
