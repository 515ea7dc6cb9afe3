---------------------------- MODULE Scheduler -----------------------------
(***************************************************************************)
(* One job of src/src/scheduler/mod.rs.  The task computes its delay from  *)
(* the wall clock and sleeps on the monotonic clock, so a wall clock that  *)
(* is stepped while it sleeps makes it fire early or late; an action that  *)
(* takes long, or a busy runtime, makes it late too.  The next due instant *)
(* is computed from the one that fired, never from the time it ran.        *)
(*                                                                         *)
(* A job's own module gives the action and the reschedule function, and    *)
(* conjoins them to Fire and Rearm.                                        *)
(***************************************************************************)
EXTENDS Integers

CONSTANTS
    FirstInstant,  \* the wall clock stays in
    LastInstant,   \*   FirstInstant..LastInstant (bound)
    MaxLate,       \* bound: units of delay in firing and acting
    StepsBack,     \* the amounts by which the wall clock may be set back
    MaxSteps       \* bound: how often it is

ASSUME SchedulerAssumption ==
    /\ FirstInstant \in Int
    /\ LastInstant \in Int
    /\ MaxLate \in Nat
    /\ StepsBack \in SUBSET Nat
    /\ MaxSteps \in Nat

VARIABLES
    now,        \* the wall clock
    timer,      \* what is left of tokio::time::sleep
    fireAt,     \* the due instant
    fired,      \* the due instant before it (at first, the start)
    stage,      \* "sleep", "acted" (the action has run) or "ended"
    cancelled,  \* the cancellation token
    late,       \* counter for MaxLate
    steps       \* counter for MaxSteps

clockVars == <<now, late, steps>>
jobVars == <<timer, fireAt, fired, stage>>
schedulerVars == <<clockVars, jobVars, cancelled>>

Later(a, b) == IF a < b THEN b ELSE a

\* Duration::try_from(fire_at - now), zero when negative.
Delay(due) == Later(due - now, 0)

SchedulerTypeOK ==
    /\ now \in Int
    /\ timer \in Nat
    /\ fireAt \in Int
    /\ fired \in Int
    /\ stage \in {"sleep", "acted", "ended"}
    /\ cancelled \in BOOLEAN
    /\ late \in 0..MaxLate
    /\ steps \in 0..MaxSteps

\* schedule(): the job sleeps until `due`.
ScheduleAt(due) ==
    /\ timer = Delay(due)
    /\ fireAt = due
    /\ fired = now
    /\ stage = "sleep"
    /\ cancelled = FALSE
    /\ late = 0
    /\ steps = 0

\* A unit of time passes: the sleep goes on, or what is due is late.
Tick ==
    /\ now < LastInstant
    /\ now' = now + 1
    /\ \/ /\ stage = "sleep" /\ timer > 0
          /\ timer' = timer - 1
          /\ UNCHANGED late
       \/ /\ stage = "acted" \/ timer = 0
          /\ late < MaxLate
          /\ late' = late + 1
          /\ UNCHANGED timer
    /\ UNCHANGED <<fireAt, fired, stage, cancelled, steps>>

\* The wall clock is set back; the sleep does not notice.
StepBack(amount) ==
    /\ steps < MaxSteps
    /\ now - amount >= FirstInstant
    /\ now' = now - amount
    /\ steps' = steps + 1
    /\ UNCHANGED <<late, jobVars, cancelled>>

\* The sleep is over and no cancellation is seen: the action runs.  A failure
\* that it reports cancels the schedule.
Fire(reported) ==
    /\ stage = "sleep" /\ timer = 0 /\ ~cancelled
    /\ stage' = "acted"
    /\ cancelled' = reported
    /\ UNCHANGED <<clockVars, timer, fireAt, fired>>

\* The action is over and no cancellation is seen: the next sleep.
Rearm(next) ==
    /\ stage = "acted" /\ ~cancelled
    /\ fireAt' = next
    /\ fired' = fireAt
    /\ timer' = Delay(next)
    /\ stage' = "sleep"
    /\ UNCHANGED <<clockVars, cancelled>>

\* Scheduler::cancel, or a failure reported.
Cancel ==
    /\ ~cancelled
    /\ cancelled' = TRUE
    /\ UNCHANGED <<clockVars, jobVars>>

\* The job notices the cancellation, asleep or after its action.
End ==
    /\ cancelled
    /\ stage # "ended"
    /\ stage' = "ended"
    /\ UNCHANGED <<clockVars, timer, fireAt, fired, cancelled>>
===========================================================================
