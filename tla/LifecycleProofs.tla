------------------------- MODULE LifecycleProofs --------------------------
(***************************************************************************)
(* For every budget and grace, any number of sessions, any configuration   *)
(* and any command line: the shutdown is bounded, no job outlives the run, *)
(* a failed start has let no device in, what the configuration keeps is    *)
(* scheduled, the flags mean what they say, and a number means the same on *)
(* the command line and in the file.                                       *)
(***************************************************************************)
EXTENDS Lifecycle, WellFoundedInduction, TLAPS

\* Steps that start a timeout keep it within the budget.
LEMMA RemainingFacts ==
    ASSUME Deadlines
    PROVE  /\ Remaining \in Nat
           /\ elapsed + Remaining \in Nat
           /\ elapsed <= Budget => elapsed + Remaining = Budget
           /\ elapsed + Remaining <= Budget + Grace
BY LifecycleAssumption DEF Deadlines, Remaining

\* Steps that leave the clock and the timeouts alone.
Untimed ==
    \/ Start
    \/ SetUp
    \/ \E byHook \in BOOLEAN : Report(byHook)
    \/ ServerStops
    \/ Stop
    \/ \E s \in Sessions : Device(s)
    \/ ListSessions
    \/ ThreadFinishes

LEMMA UntimedSteps ==
    ASSUME Untimed
    PROVE  /\ UNCHANGED timeVars
           /\ phase' = phase \/ phase \in {"flags", "load", "modes", "broker", "setup",
                                         "controllers"}
<1>1. CASE Start
    BY <1>1 DEF Start, ParseFlags, Load, StartModes, StartBroker, BrokerStarted,
        StartControllers
<1>2. CASE \E byHook \in BOOLEAN : Report(byHook)
    BY <1>2 DEF Report
<1>3. CASE ServerStops \/ Stop \/ ListSessions \/ ThreadFinishes
    BY <1>3 DEF ServerStops, Stop, ListSessions, ThreadFinishes
<1>4. CASE \E s \in Sessions : Device(s)
    BY <1>4 DEF Device, Authenticate, Enter, Leave
<1>5. CASE SetUp
    BY <1>5 DEF SetUp, Bind, Serve
<1> QED
    BY <1>1, <1>2, <1>3, <1>4, <1>5 DEF Untimed

LEMMA DeadlinesStep ==
    Deadlines /\ [Next]_vars => Deadlines'
<1> SUFFICES ASSUME Deadlines, [Next]_vars PROVE Deadlines'
    OBVIOUS
<1> USE LifecycleAssumption
<1>1. CASE Untimed
    BY <1>1, UntimedSteps DEF Deadlines, timeVars
<1>2. CASE EndLoop
    BY <1>2, RemainingFacts DEF EndLoop, Goto, Deadlines
<1>3. CASE Kicked
    BY <1>3, RemainingFacts DEF Kicked, Goto, Deadlines
<1>4. CASE Drained
    BY <1>4, RemainingFacts DEF Drained, Goto, Deadlines
<1>5. CASE Collected
    BY <1>5, RemainingFacts DEF Collected, Goto, Deadlines
<1>6. CASE Exit
    BY <1>6 DEF Exit, Goto, Deadlines, timeVars
<1>7. CASE Tick
    BY <1>7 DEF Tick, Deadlines
<1>8. CASE UNCHANGED vars
    BY <1>8 DEF vars, timeVars, Deadlines
<1> QED
    BY <1>1, <1>2, <1>3, <1>4, <1>5, <1>6, <1>7, <1>8 DEF Next, Untimed, Shutdown

\* Broker::shutdown and what follows end at most SHUTDOWN_GRACE after the
\* deadline, whatever the sessions and the broker thread do.
THEOREM ShutdownBounded ==
    Spec => []ExitsInTime
<1>1. Init => Deadlines
    BY LifecycleAssumption DEF Init, Deadlines
<1>2. Deadlines => ExitsInTime
    BY DEF Deadlines, ExitsInTime
<1> QED
    BY <1>1, <1>2, DeadlinesStep, PTL DEF Spec

LEMMA JobsStep ==
    JobsAccounted /\ [Next]_vars => JobsAccounted'
<1> SUFFICES ASSUME JobsAccounted, [Next]_vars PROVE JobsAccounted'
    OBVIOUS
<1> USE DEF JobsAccounted, NoJobOutlivesTheRun, Goto
<1>1. CASE ParseFlags
    BY <1>1 DEF ParseFlags, Early, Proceed
<1>2. ASSUME NEW readable \in BOOLEAN, Load(readable) PROVE JobsAccounted'
    BY <1>2 DEF Load, Early, Proceed
<1>3. CASE StartModes
    BY <1>3 DEF StartModes, Early, Proceed
<1>4. CASE StartBroker \/ BrokerStarted
    BY <1>4 DEF StartBroker, BrokerStarted, Early, Proceed
<1>5. CASE StartControllers
    BY <1>5 DEF StartControllers, Proceed
<1>6. CASE \E byHook \in BOOLEAN : Report(byHook)
    BY <1>6 DEF Report
<1>7. CASE ServerStops \/ Stop \/ ListSessions \/ ThreadFinishes \/ Tick
    BY <1>7 DEF ServerStops, Stop, ListSessions, ThreadFinishes, Tick
<1>8. CASE \E s \in Sessions : Device(s)
    BY <1>8 DEF Device, Authenticate, Enter, Leave
<1>9. CASE Shutdown
    BY <1>9 DEF Shutdown, EndLoop, Kicked, Drained, Collected, Exit
<1>10. CASE UNCHANGED vars
    BY <1>10 DEF vars
<1>11. CASE SetUp
    BY <1>11 DEF SetUp, Bind, Serve
<1> QED
    BY <1>1, <1>2, <1>3, <1>4, <1>5, <1>6, <1>7, <1>8, <1>9, <1>10, <1>11 DEF Next, Start

\* Every way out of the run, an early one included, leaves the schedule
\* cancelled if anything was scheduled.
THEOREM EveryExitCancels ==
    Spec => []NoJobOutlivesTheRun
<1>1. Init => JobsAccounted
    BY DEF Init, JobsAccounted, NoJobOutlivesTheRun
<1>2. JobsAccounted => NoJobOutlivesTheRun
    BY DEF JobsAccounted
<1> QED
    BY <1>1, <1>2, JobsStep, PTL DEF Spec

---------------------------------------------------------------------------
(* The level of the log. *)

LEMMA SlogLevelType ==
    ASSUME NEW text
    PROVE  SlogLevel(text) = Invalid \/ SlogLevel(text) \in Int
<1>1. \A n : IsI64(n) => n \in Int
    BY DEF IsI64
<1> QED BY <1>1 DEF SlogLevel

\* The tracing filter chosen for a threshold lets through what slog would.
LEMMA FilterIsSlogs ==
    ASSUME NEW threshold \in Int, NEW record \in DOMAIN SlogLevels
    PROVE  Writes(FilterForSlogLevel(threshold), record) <=> SlogLevels[record] >= threshold
<1>1. record \in {"debug", "info", "warn", "error"}
    BY DEF SlogLevels
<1>2. CASE threshold <= -4
    BY <1>1, <1>2 DEF FilterForSlogLevel, Writes, SlogLevels, Off
<1>3. CASE threshold \in -3..0
    BY <1>1, <1>3 DEF FilterForSlogLevel, Writes, SlogLevels, Off
<1>4. CASE threshold \in 1..4
    BY <1>1, <1>4 DEF FilterForSlogLevel, Writes, SlogLevels, Off
<1>5. CASE threshold \in 5..8
    BY <1>1, <1>5 DEF FilterForSlogLevel, Writes, SlogLevels, Off
<1>6. CASE threshold > 8
    BY <1>1, <1>6 DEF FilterForSlogLevel, Writes, SlogLevels, Off
<1> QED BY <1>2, <1>3, <1>4, <1>5, <1>6

LEMMA LevelIsSlogs ==
    ASSUME NEW text, NEW record \in DOMAIN SlogLevels
    PROVE  Writes(ResolveLevel(text), record) <=> SlogWrites(text, record)
<1>1. CASE SlogLevel(text) = Invalid
    <2>1. FilterForSlogLevel(0) = "info"
        BY DEF FilterForSlogLevel
    <2> QED BY <1>1, <2>1, FilterIsSlogs DEF ResolveLevel, SlogWrites
<1>2. CASE SlogLevel(text) # Invalid
    BY <1>2, SlogLevelType, FilterIsSlogs DEF ResolveLevel, SlogWrites
<1> QED BY <1>1, <1>2

\* Whatever text asks for a level, the log has the records that slog would have
\* written: effective_level, resolve_level and filter_for_slog_level agree with
\* it for every offset.
THEOREM LogsAsSlog ==
    Spec => []LogsWhatSlogWould
<1>1. LogsWhatSlogWould
    BY LevelIsSlogs DEF LogsWhatSlogWould, EffectiveLevel
<1> QED BY <1>1, PTL

---------------------------------------------------------------------------
(* A start that fails. *)

\* No server has run, and no device has been let in.
Unserved == ~listening /\ \A s \in Sessions : session[s] = "none"

\* The inductive form: the broker thread runs from Broker::start until the
\* shutdown asks it to stop, serves nothing until all its listeners are bound,
\* and a run that returns without closing the hook has never had it serve.
BrokerInv ==
    /\ session \in [Sessions -> {"none", "authenticated", "live", "gone"}]
    /\ closing \in BOOLEAN
    /\ phase \in {"flags", "load", "modes", "broker"} => thread = "none"
    /\ phase = "setup" => thread \in {"starting", "serving", "finished"}
    /\ thread = "starting" => phase = "setup"
    /\ thread = "stopping" => phase \in {"collecting", "returned", "exited"}
    /\ thread \in {"none", "starting"} /\ phase # "exited" => Unserved
    /\ phase = "setup" /\ thread = "finished" => Unserved
    /\ phase \in {"kicking", "draining", "collecting"} => closing
    /\ phase = "returned" /\ ~closing => Unserved /\ thread \in {"none", "finished"}

LEMMA BrokerStep ==
    BrokerInv /\ [Next]_vars => BrokerInv'
<1> SUFFICES ASSUME BrokerInv, [Next]_vars PROVE BrokerInv'
    OBVIOUS
<1> USE DEF BrokerInv, Unserved, Goto
<1>1. CASE ParseFlags \/ StartModes \/ \E readable \in BOOLEAN : Load(readable)
    BY <1>1 DEF ParseFlags, StartModes, Load, Early, Proceed, brokerVars
<1>2. CASE StartBroker \/ BrokerStarted \/ StartControllers
    BY <1>2 DEF StartBroker, BrokerStarted, StartControllers, Early, Proceed, brokerVars
<1>3. CASE SetUp
    BY <1>3 DEF SetUp, Bind, Serve
<1>4. CASE \E byHook \in BOOLEAN : Report(byHook)
    BY <1>4 DEF Report
<1>5. CASE ServerStops \/ Stop \/ ListSessions \/ Tick
    BY <1>5 DEF ServerStops, Stop, ListSessions, Tick, brokerVars
<1>6. CASE \E s \in Sessions : Device(s)
    <2>1. PICK s \in Sessions : Device(s)
        BY <1>6
    <2>2. CASE Authenticate(s)
        BY <2>2 DEF Authenticate
    <2>3. CASE Enter(s)
        BY <2>3 DEF Enter
    <2>4. CASE Leave(s)
        BY <2>4 DEF Leave
    <2> QED BY <2>1, <2>2, <2>3, <2>4 DEF Device
<1>7. CASE EndLoop \/ Kicked \/ Drained \/ Collected
    <2>1. CASE EndLoop
        BY <2>1 DEF EndLoop
    <2>2. CASE Kicked
        BY <2>2 DEF Kicked, brokerVars
    <2>3. CASE Drained
        BY <2>3 DEF Drained
    <2>4. CASE Collected
        BY <2>4 DEF Collected, brokerVars
    <2> QED BY <1>7, <2>1, <2>2, <2>3, <2>4
<1>8. CASE ThreadFinishes
    BY <1>8 DEF ThreadFinishes
<1>9. CASE Exit
    BY <1>9 DEF Exit
<1>10. CASE UNCHANGED vars
    BY <1>10 DEF vars, brokerVars
<1> QED
    BY <1>1, <1>2, <1>3, <1>4, <1>5, <1>6, <1>7, <1>8, <1>9, <1>10 DEF Next, Start, Shutdown

\* Whichever step of start fails, the second listener's bind included, no
\* device has been let in: Broker::start serves only what set_up has finished.
THEOREM NoDeviceBeforeTheStart ==
    Spec => []FailedStartMeetsNoDevice
<1>1. Init => BrokerInv
    BY DEF Init, BrokerInv, Unserved
<1>2. BrokerInv => FailedStartMeetsNoDevice
    BY DEF BrokerInv, Unserved, FailedStartMeetsNoDevice
<1> QED
    BY <1>1, <1>2, BrokerStep, PTL DEF Spec

---------------------------------------------------------------------------
(* What is scheduled. *)

\* The jobs an entry of the file asks for.
Asked(e) == {<<"scheduled", e.name, n>> : n \in IF e.repeat = "weekly" THEN e.weekdays ELSE {""}}

\* The entry that scheduled_notification makes of one of the file.
Kept(e) == [e EXCEPT !.time = NonEmptyOr(@, Midnight), !.enabled = BooleanOr(@, TRUE)]

EntryFields == {"name", "repeat", "weekdays", "day", "date", "time", "enabled"}

LEMMA AskedTuple ==
    ASSUME NEW e, NEW job \in Asked(e)
    PROVE  job[1] = "scheduled" /\ job[2] = e.name
<1>1. PICK n \in IF e.repeat = "weekly" THEN e.weekdays ELSE {""} :
          job = <<"scheduled", e.name, n>>
    BY DEF Asked
<1> QED BY <1>1

LEMMA KeptFields ==
    ASSUME NEW e, EntryFields \subseteq DOMAIN e
    PROVE  /\ \A f \in EntryFields \ {"time", "enabled"} : Kept(e)[f] = e[f]
           /\ Kept(e).time = NonEmptyOr(e.time, Midnight)
           /\ Kept(e).enabled = BooleanOr(e.enabled, TRUE)
BY DEF Kept, EntryFields

\* The notifier schedules all of an entry that is kept and switched on: the
\* checks of the configuration and its own agree.
LEMMA JobsOfKept ==
    ASSUME NEW e, EntryFields \subseteq DOMAIN e, Keeps(e)
    PROVE  JobsOf(Kept(e)) = IF BooleanOr(e.enabled, TRUE) THEN Asked(e) ELSE {}
<1> DEFINE k == Kept(e)
<1>1. /\ k.name = e.name /\ k.repeat = e.repeat /\ k.weekdays = e.weekdays
      /\ k.day = e.day /\ k.date = e.date
    BY KeptFields DEF EntryFields
<1>2. IsTimeOfDay(k.time)
    <2>1. IsTimeOfDay(Midnight)
        BY InputsAssumption DEF IsTimeOfDay, Midnight
    <2>2. k.time = NonEmptyOr(e.time, Midnight)
        BY KeptFields
    <2> QED BY <2>1, <2>2 DEF Keeps, NonEmptyOr
<1>3. k.enabled = BooleanOr(e.enabled, TRUE)
    BY KeptFields
<1>4. Schedules(k) = IF e.repeat = "weekly" THEN e.weekdays ELSE {""}
    <2> HIDE DEF k
    <2>1. CASE e.repeat = "daily"
        BY <1>1, <2>1 DEF Schedules
    <2>2. CASE e.repeat = "weekly" /\ e.weekdays \subseteq Weekdays
        BY <1>1, <2>2 DEF Schedules, IsWeekday
    <2>3. CASE e.repeat = "monthly" /\ e.day \in 1..31
        BY <1>1, <2>3 DEF Schedules
    <2>4. CASE e.repeat = "yearly" /\ IsMonthDay(e.date)
        BY <1>1, <2>4 DEF Schedules
    <2> QED BY <2>1, <2>2, <2>3, <2>4 DEF Keeps
<1> HIDE DEF k
<1>5. JobsOf(k) = IF BooleanOr(e.enabled, TRUE) THEN Asked(e) ELSE {}
    BY <1>1, <1>2, <1>3, <1>4 DEF JobsOf, Asked
<1> QED BY <1>5 DEF k

\* The jobs of the notifier for a file.
LEMMA NotifierJobs ==
    ASSUME NEW f, \A e \in f.entries : EntryFields \subseteq DOMAIN e
    PROVE  UNION {JobsOf(k) : k \in Validated(f).entries} =
           UNION {Asked(e) : e \in {d \in f.entries : Keeps(d) /\ BooleanOr(d.enabled, TRUE)}}
<1>1. Validated(f).entries = {Kept(e) : e \in {d \in f.entries : Keeps(d)}}
    BY DEF Validated, Kept
<1> DEFINE on == {d \in f.entries : Keeps(d) /\ BooleanOr(d.enabled, TRUE)}
<1>2. ASSUME NEW job
      PROVE  (\E e \in f.entries : Keeps(e) /\ job \in JobsOf(Kept(e)))
                <=> (\E e \in on : job \in Asked(e))
    BY JobsOfKept
<1>3. ASSUME NEW job
      PROVE  job \in UNION {JobsOf(k) : k \in Validated(f).entries}
                <=> \E e \in f.entries : Keeps(e) /\ job \in JobsOf(Kept(e))
    BY <1>1, Zenon
<1>4. ASSUME NEW job
      PROVE  job \in UNION {Asked(e) : e \in on} <=> \E e \in on : job \in Asked(e)
    BY Zenon
<1> HIDE DEF on
<1>5. ASSUME NEW job
      PROVE  job \in UNION {JobsOf(k) : k \in Validated(f).entries}
                <=> job \in UNION {Asked(e) : e \in on}
    BY <1>2, <1>3, <1>4, Zenon
<1> QED BY <1>5, Zenon DEF on

NotifierJobsOf(f) == UNION {JobsOf(k) : k \in Validated(f).entries}

ModeJobs == {<<"daynight">>, <<"energysaving">>}

\* The inductive form: a file that gets past the load decodes, and the run
\* adds its jobs to those of the modes, once.
ScheduleInv ==
    /\ \E input \in Inputs : file = input.file
    /\ phase \in {"modes", "broker", "setup", "controllers", "running"} => Decodes(file)
    /\ phase \in {"broker", "setup", "controllers"} => jobs = ModeJobs
    /\ phase = "running" =>
          jobs = ModeJobs \cup NotifierJobsOf(file)
                          \cup (IF Validated(file).weather THEN {<<"weather">>} ELSE {})

LEMMA ScheduleStep ==
    ScheduleInv /\ [Next]_vars => ScheduleInv'
<1> SUFFICES ASSUME ScheduleInv, [Next]_vars PROVE ScheduleInv'
    OBVIOUS
<1> USE DEF ScheduleInv, Goto, startVars
<1>1. CASE ParseFlags
    BY <1>1 DEF ParseFlags, Early, Proceed
<1>2. ASSUME NEW readable \in BOOLEAN, Load(readable) PROVE ScheduleInv'
    BY <1>2 DEF Load, Early, Proceed
<1>3. CASE StartModes
    BY <1>3 DEF StartModes, Early, Proceed, ModeJobs
<1>4. CASE StartBroker \/ BrokerStarted
    BY <1>4 DEF StartBroker, BrokerStarted, Early, Proceed
<1>5. CASE StartControllers
    BY <1>5 DEF StartControllers, Proceed, NotifierJobsOf
<1>6. CASE \E byHook \in BOOLEAN : Report(byHook)
    BY <1>6 DEF Report
<1>7. CASE ServerStops \/ Stop \/ ListSessions \/ ThreadFinishes \/ Tick
    BY <1>7 DEF ServerStops, Stop, ListSessions, ThreadFinishes, Tick
<1>8. CASE \E s \in Sessions : Device(s)
    BY <1>8 DEF Device, Authenticate, Enter, Leave
<1>9. CASE Shutdown
    BY <1>9 DEF Shutdown, EndLoop, Kicked, Drained, Collected, Exit
<1>10. CASE UNCHANGED vars
    BY <1>10 DEF vars
<1>11. CASE SetUp
    BY <1>11 DEF SetUp, Bind, Serve
<1> QED
    BY <1>1, <1>2, <1>3, <1>4, <1>5, <1>6, <1>7, <1>8, <1>9, <1>10, <1>11 DEF Next, Start

\* For any entries: what scheduled_notification keeps, ScheduledNotifier::start
\* schedules completely, and nothing of an entry that is switched off.
THEOREM EveryKeptEntryScheduled ==
    Spec => []KeptEntriesAreScheduled
<1>1. Init => ScheduleInv
    BY DEF Init, ScheduleInv
<1>2. ScheduleInv => KeptEntriesAreScheduled
    <2> SUFFICES ASSUME ScheduleInv, phase = "running", NEW e \in file.entries
                 PROVE  /\ e.enabled \notin No /\ Keeps(e) => Asked(e) \subseteq jobs
                        /\ e.enabled \in No => Asked(e) \cap jobs = {}
        BY DEF KeptEntriesAreScheduled, Asked
    <2> DEFINE scheduled == {d \in file.entries : Keeps(d) /\ BooleanOr(d.enabled, TRUE)}
               others == ModeJobs \cup (IF Validated(file).weather THEN {<<"weather">>} ELSE {})
    <2>1. /\ \A d \in file.entries : EntryFields \subseteq DOMAIN d
          /\ \A d \in file.entries : d.name = e.name => d = e
        BY InputsAssumption DEF ScheduleInv, EntryFields
    <2>2. jobs = others \cup UNION {Asked(d) : d \in scheduled}
        <3>1. NotifierJobsOf(file) = UNION {Asked(d) : d \in scheduled}
            BY <2>1, NotifierJobs, Zenon DEF NotifierJobsOf
        <3>2. jobs = others \cup NotifierJobsOf(file)
            BY DEF ScheduleInv
        <3> QED BY <3>1, <3>2, Zenon
    <2>3. Decodes(file)
        BY DEF ScheduleInv
    <2>4. ASSUME e.enabled \notin No, Keeps(e) PROVE Asked(e) \subseteq jobs
        <3>1. e.enabled = NoValue \/ e.enabled \in Yes
            BY <2>3, <2>4 DEF Decodes, IsBoolean
        <3> QED BY <2>2, <2>4, <3>1 DEF BooleanOr
    <2>5. ASSUME e.enabled \in No, NEW job \in Asked(e), job \in jobs PROVE FALSE
        <3>1. job[1] = "scheduled" /\ job[2] = e.name
            BY <2>5, AskedTuple
        <3>2. job \notin others
            BY <3>1 DEF ModeJobs
        <3>3. PICK d \in scheduled : job \in Asked(d)
            BY <2>2, <2>5, <3>2
        <3>4. d = e
            BY <2>1, <3>1, <3>3, AskedTuple
        <3>5. ~BooleanOr(e.enabled, TRUE)
            BY <2>5, InputsAssumption DEF BooleanOr, Yes, No
        <3> QED BY <3>3, <3>4, <3>5
    <2> QED BY <2>4, <2>5
<1> QED
    BY <1>1, <1>2, ScheduleStep, PTL DEF Spec

---------------------------------------------------------------------------
(* The command line. *)

\* The provers have no induction, but a least counterexample will do.
LEMMA LeastNat ==
    ASSUME NEW T, T \subseteq Nat, T # {}
    PROVE  \E x \in T : \A y \in T : x <= y
<1> DEFINE R == OpToRel(<, Nat)
<1>1. PICK x \in T : \A y \in T : <<y, x>> \notin R
    BY WFMin, NatLessThanWellFounded, Zenon
<1>2. \A y \in T : y < x => <<y, x>> \in R
    BY DEF OpToRel
<1>3. \A y \in T : ~(y < x)
    BY <1>1, <1>2
<1> QED BY <1>3

\* What holds of a position when it holds of all those after it.
LEMMA FromTheEnd ==
    ASSUME NEW n \in Nat, NEW G,
           \A i \in 1..n : (\A j \in 1..n : i < j => j \in G) => i \in G
    PROVE  \A i \in 1..n : i \in G
<1> DEFINE Bad == {k \in 0..n : n - k \in 1..n /\ n - k \notin G}
<1> SUFFICES ASSUME NEW i \in 1..n, i \notin G PROVE FALSE
    OBVIOUS
<1>1. n - i \in Bad /\ Bad \subseteq Nat
    <2>1. n - i \in 0..n /\ n - (n - i) = i
        OBVIOUS
    <2> QED BY <2>1
<1>2. PICK k \in Bad : \A y \in Bad : k <= y
    BY <1>1, LeastNat
<1>3. PICK m \in 1..n : m = n - k /\ m \notin G
    BY <1>2
<1>4. ASSUME NEW j \in 1..n, m < j PROVE j \in G
    <2>1. n - j \in 0..n /\ n - (n - j) = j /\ n - j < k
        BY <1>2, <1>3, <1>4
    <2>2. n - j \notin Bad
        BY <1>2, <2>1
    <2> QED BY <2>1, <2>2
<1> QED BY <1>3, <1>4

\* A function of the positions that is given by its values further on.
IsReading(f, m, n, base, step, after) ==
    \A i \in m..(n + 2) : f[i] = IF i > n THEN base ELSE step[<<i, f[after[i]]>>]

LEMMA ReadingExists ==
    ASSUME NEW n \in Nat, NEW V, NEW base \in V, NEW step \in [(1..n) \X V -> V],
           NEW after \in [1..n -> Nat], \A i \in 1..n : after[i] \in {i + 1, i + 2}
    PROVE  \E f \in [1..(n + 2) -> V] : IsReading(f, 1, n, base, step, after)
<1> DEFINE Some(m) == \E f \in [m..(n + 2) -> V] : IsReading(f, m, n, base, step, after)
           G == {m \in 1..(n + 2) : Some(m)}
<1>0. \A i \in 1..n : \A m \in 1..i : after[i] \in (m + 1)..(n + 2)
    <2> SUFFICES ASSUME NEW i \in 1..n, NEW m \in 1..i PROVE after[i] \in (m + 1)..(n + 2)
        OBVIOUS
    <2>1. after[i] = i + 1 \/ after[i] = i + 2
        OBVIOUS
    <2> QED BY <2>1
<1>1. ASSUME NEW m \in 1..(n + 2), \A j \in 1..(n + 2) : m < j => j \in G
      PROVE  m \in G
    <2>1. CASE m > n
        <3> DEFINE f == [i \in m..(n + 2) |-> base]
        <3>1. f \in [m..(n + 2) -> V] /\ IsReading(f, m, n, base, step, after)
            BY <2>1 DEF IsReading
        <3> QED BY <3>1
    <2>2. CASE m <= n
        <3>1. m + 1 \in G
            BY <1>1, <2>2
        <3>2. PICK f \in [(m + 1)..(n + 2) -> V] : IsReading(f, m + 1, n, base, step, after)
            BY <3>1
        <3>3. PICK v \in V : v = step[<<m, f[after[m]]>>]
            <4>1. after[m] \in (m + 1)..(n + 2)
                BY <1>0, <2>2
            <4>2. f[after[m]] \in V
                BY <4>1
            <4>3. <<m, f[after[m]]>> \in (1..n) \X V
                BY <2>2, <4>2
            <4> QED BY <4>3
        <3> DEFINE g == [i \in m..(n + 2) |-> IF i = m THEN v ELSE f[i]]
        <3>4. g \in [m..(n + 2) -> V]
            BY <2>2
        <3>5. g[m] = v /\ \A i \in (m + 1)..(n + 2) : g[i] = f[i]
            BY <2>2
        <3> HIDE DEF g
        <3>6. ASSUME NEW i \in m..(n + 2)
              PROVE  g[i] = IF i > n THEN base ELSE step[<<i, g[after[i]]>>]
            <4>1. ASSUME i <= n PROVE g[after[i]] = f[after[i]]
                <5>1. i \in 1..n /\ m \in 1..i
                    BY <4>1
                <5> QED BY <1>0, <3>5, <5>1
            <4>2. CASE i = m
                <5>1. g[m] = step[<<m, g[after[m]]>>]
                    BY <2>2, <3>3, <3>5, <4>1, <4>2
                <5> QED BY <2>2, <4>2, <5>1
            <4>3. CASE i # m
                <5>1. i \in (m + 1)..(n + 2)
                    BY <4>3
                <5>2. f[i] = IF i > n THEN base ELSE step[<<i, f[after[i]]>>]
                    BY <3>2, <5>1 DEF IsReading
                <5>3. g[i] = f[i]
                    BY <3>5, <5>1
                <5>4. CASE i > n
                    BY <5>2, <5>3, <5>4
                <5>5. CASE i <= n
                    BY <4>1, <5>2, <5>3, <5>5
                <5> QED BY <5>4, <5>5
            <4> QED BY <4>2, <4>3
        <3> QED BY <3>4, <3>6 DEF IsReading
    <2> QED BY <2>1, <2>2
<1> HIDE DEF G
<1>2. 1 \in G
    <2>1. PICK N \in Nat : N = n + 2
        OBVIOUS
    <2>2. \A m \in 1..N : (\A j \in 1..N : m < j => j \in G) => m \in G
        BY <1>1, <2>1
    <2>3. \A m \in 1..N : m \in G
        BY <2>2, FromTheEnd, Zenon
    <2> QED BY <2>1, <2>3
<1> QED BY <1>2 DEF G

\* What clap makes of the arguments, from each position on.
Nothing == [result |-> "run", flags |-> {}, version |-> Invalid]

Outcomes(n) ==
    [result : {"run", "help", "invalid"}, flags : SUBSET (1..n),
     version : BOOLEAN \cup {Invalid}]

AfterFlag(a, i) == IF NeedsNext(a[i]) THEN i + 2 ELSE i + 1

IsClap(a, read) ==
    read = [i \in 1..(Len(a) + 2) |->
               IF i > Len(a) THEN Nothing ELSE ReadFlag(a, i, read[AfterFlag(a, i)])]

LEMMA ReadFlagType ==
    ASSUME NEW a, NEW n \in Nat, NEW i \in 1..n, NEW rest \in Outcomes(n)
    PROVE  ReadFlag(a, i, rest) \in Outcomes(n)
<1>1. \A text : ParseGoBool(text) \in BOOLEAN \cup {Invalid}
    BY DEF ParseGoBool
<1>2. PICK given \in BOOLEAN \cup {Invalid} :
          given = IF FlagAt(a[i]) = "version" /\ a[i].eq THEN ParseGoBool(a[i].value) ELSE TRUE
    BY <1>1
<1> DEFINE sets == FlagAt(a[i]) = "version" \/ (a[i].dashes = 1 /\ a[i].chars[1] = "v")
           version == IF rest.version = Invalid /\ sets THEN given ELSE rest.version
           ends(result) == [result |-> result, flags |-> {i}, version |-> Invalid]
           goes == [result |-> rest.result, flags |-> rest.flags \cup {i}, version |-> version]
<1>3. version \in BOOLEAN \cup {Invalid}
    BY <1>2 DEF Outcomes
<1>4. ReadFlag(a, i, rest) \in {ends("run"), ends("help"), ends("invalid"), goes}
    BY <1>2 DEF ReadFlag
<1> HIDE DEF version
<1>5. goes \in Outcomes(n)
    BY <1>3 DEF Outcomes
<1>6. \A result \in {"run", "help", "invalid"} : ends(result) \in Outcomes(n)
    BY DEF Outcomes
<1> HIDE DEF ends, goes
<1> QED BY <1>4, <1>5, <1>6

LEMMA ClapReads ==
    ASSUME NEW a, Len(a) \in Nat
    PROVE  \E read : IsClap(a, read) /\ Clap(a) = read[1]
<1> DEFINE n == Len(a)
           V == Outcomes(n)
           step == [p \in (1..n) \X V |-> ReadFlag(a, p[1], p[2])]
           after == [i \in 1..n |-> AfterFlag(a, i)]
<1>1. Nothing \in V
    BY DEF Nothing, Outcomes
<1>2. step \in [(1..n) \X V -> V]
    <2> SUFFICES ASSUME NEW p \in (1..n) \X V PROVE ReadFlag(a, p[1], p[2]) \in V
        OBVIOUS
    <2>1. p[1] \in 1..n /\ p[2] \in V
        OBVIOUS
    <2> QED BY <2>1, ReadFlagType
<1>3. after \in [1..n -> Nat] /\ \A i \in 1..n : after[i] \in {i + 1, i + 2}
    BY DEF AfterFlag
<1>4. PICK f \in [1..(n + 2) -> V] : IsReading(f, 1, n, Nothing, step, after)
    <2> HIDE DEF n, V, step, after
    <2>1. n \in Nat
        BY DEF n
    <2> QED BY <1>1, <1>2, <1>3, <2>1, ReadingExists
<1>5. \A i \in 1..(n + 2) :
          f[i] = IF i > n THEN Nothing ELSE ReadFlag(a, i, f[AfterFlag(a, i)])
    <2> SUFFICES ASSUME NEW i \in 1..(n + 2)
                 PROVE  f[i] = IF i > n THEN Nothing ELSE ReadFlag(a, i, f[AfterFlag(a, i)])
        OBVIOUS
    <2>1. f[i] = IF i > n THEN Nothing ELSE step[<<i, f[after[i]]>>]
        BY <1>4 DEF IsReading
    <2>2. CASE i > n
        BY <2>1, <2>2
    <2>3. CASE i <= n
        <3>1. after[i] = AfterFlag(a, i) /\ AfterFlag(a, i) \in 1..(n + 2)
            BY <2>3 DEF AfterFlag
        <3>2. f[AfterFlag(a, i)] \in V
            BY <3>1
        <3>3. step[<<i, f[AfterFlag(a, i)]>>] = ReadFlag(a, i, f[AfterFlag(a, i)])
            BY <2>3, <3>2
        <3> QED BY <2>1, <2>3, <3>1, <3>3
    <2> QED BY <2>2, <2>3
<1>6. IsClap(a, f)
    BY <1>4, <1>5 DEF IsClap
<1>7. Clap(a) = (CHOOSE read : IsClap(a, read))[1]
    BY DEF Clap, IsClap, Nothing, AfterFlag
<1>8. IsClap(a, CHOOSE read : IsClap(a, read))
    BY <1>6, Zenon
<1> QED BY <1>7, <1>8, Zenon

LEMMA EscapeIsNoFlag ==
    ASSUME NEW arg, IsEscape(arg)
    PROVE  FlagAt(arg) = ""
<1>1. "" \notin LongNames
    BY DEF LongNames, Separate, Booleans
<1>2. arg.dashes = 2 /\ arg.name = ""
    BY DEF IsEscape
<1>3. 2 # 1
    OBVIOUS
<1>4. arg.dashes # 1
    BY <1>2, <1>3, Zenon
<1> QED BY <1>1, <1>2, <1>4, Zenon DEF FlagAt

\* The cases of an argument that is not a value.
IsRead(a, i, rest, out) ==
    \/ out.result = "invalid" /\ out.flags = {i}
    \/ out.flags = {i} /\ FlagAt(a[i]) = "help"
    \/ out.flags = {i} /\ IsEscape(a[i])
    \/ /\ out.result = rest.result /\ out.flags = rest.flags \cup {i}
       /\ FlagAt(a[i]) \notin {"", "help"} /\ HasValue(a, i)

LEMMA ReadFlagCases ==
    ASSUME NEW a, NEW i, NEW rest
    PROVE  IsRead(a, i, rest, ReadFlag(a, i, rest))
<1>1. PICK version :
          version = IF rest.version = Invalid
                       /\ (FlagAt(a[i]) = "version" \/ (a[i].dashes = 1 /\ a[i].chars[1] = "v"))
                    THEN IF FlagAt(a[i]) = "version" /\ a[i].eq
                         THEN ParseGoBool(a[i].value) ELSE TRUE
                    ELSE rest.version
    OBVIOUS
<1> DEFINE ends(result) == [result |-> result, flags |-> {i}, version |-> Invalid]
           goes == [result |-> rest.result, flags |-> rest.flags \cup {i}, version |-> version]
<1>2. CASE IsEscape(a[i]) /\ i = Len(a)
    <2>1. ReadFlag(a, i, rest) = ends("run")
        BY <1>2, EscapeIsNoFlag DEF ReadFlag
    <2> QED BY <1>2, <2>1 DEF IsRead
<1>3. CASE ~(IsEscape(a[i]) /\ i = Len(a)) /\ FlagAt(a[i]) = "help" /\ ~a[i].eq
    <2>1. ReadFlag(a, i, rest) = ends("help")
        BY <1>3 DEF ReadFlag
    <2> QED BY <1>3, <2>1 DEF IsRead
<1>4. CASE /\ ~(IsEscape(a[i]) /\ i = Len(a))
           /\ FlagAt(a[i]) \notin {"", "help"} /\ HasValue(a, i)
    <2>1. ReadFlag(a, i, rest) = goes
        BY <1>1, <1>4 DEF ReadFlag
    <2>2. goes.result = rest.result /\ goes.flags = rest.flags \cup {i}
        OBVIOUS
    <2> HIDE DEF goes
    <2> QED BY <1>4, <2>1, <2>2, Zenon DEF IsRead
<1>5. CASE /\ ~(IsEscape(a[i]) /\ i = Len(a))
           /\ ~(FlagAt(a[i]) = "help" /\ ~a[i].eq)
           /\ ~(FlagAt(a[i]) \notin {"", "help"} /\ HasValue(a, i))
    <2>1. ReadFlag(a, i, rest) = ends("invalid")
        BY <1>5 DEF ReadFlag
    <2>2. ends("invalid").result = "invalid" /\ ends("invalid").flags = {i}
        OBVIOUS
    <2> HIDE DEF ends
    <2> QED BY <2>1, <2>2, Zenon DEF IsRead
<1> QED BY <1>2, <1>3, <1>4, <1>5

\* The positions that clap reads as flags: from here on, and with their values
\* on the command line.
LEMMA FlagsRead ==
    ASSUME NEW a, NEW n \in Nat, n = Len(a), NEW read, IsClap(a, read)
    PROVE  \A i \in 1..(n + 2) :
               /\ read[i] \in Outcomes(n)
               /\ \A j \in read[i].flags : j \in i..n
               /\ read[i].result # "invalid" =>
                     \A j \in read[i].flags : NeedsNext(a[j]) => j < n
<1> DEFINE Good(i) == /\ read[i] \in Outcomes(n)
                      /\ \A j \in read[i].flags : j \in i..n
                      /\ read[i].result # "invalid" =>
                            \A j \in read[i].flags : NeedsNext(a[j]) => j < n
           G == {i \in 1..(n + 2) : Good(i)}
<1>1. PICK N \in Nat : N = n + 2
    OBVIOUS
<1>2. ASSUME NEW i \in 1..N, \A j \in 1..N : i < j => j \in G PROVE i \in G
    <2>1. read[i] = IF i > n THEN Nothing ELSE ReadFlag(a, i, read[AfterFlag(a, i)])
        BY <1>1 DEF IsClap
    <2>2. CASE i > n
        <3>1. read[i] = Nothing
            BY <2>1, <2>2
        <3>2. Nothing \in Outcomes(n) /\ Nothing.flags = {}
            BY DEF Nothing, Outcomes
        <3> QED BY <1>1, <3>1, <3>2
    <2>3. CASE i <= n
        <3>1. PICK k \in 1..N : k = AfterFlag(a, i) /\ i < k
            BY <1>1, <2>3 DEF AfterFlag
        <3>2. Good(k)
            BY <1>2, <3>1
        <3>3. i \in 1..n /\ read[i] = ReadFlag(a, i, read[k])
            BY <2>1, <2>3, <3>1
        <3>4. read[i] \in Outcomes(n)
            BY <3>2, <3>3, ReadFlagType
        <3>5. IsRead(a, i, read[k], read[i])
            BY <3>3, ReadFlagCases
        <3>6. FlagAt(a[i]) \in {"", "help"} => ~NeedsNext(a[i])
            BY DEF NeedsNext, Separate
        <3>7. HasValue(a, i) /\ NeedsNext(a[i]) => i < n
            BY DEF HasValue
        <3>8. \A j \in read[i].flags : j \in i..n
            <4>1. read[i].flags = {i} \/ read[i].flags = read[k].flags \cup {i}
                BY <3>5 DEF IsRead
            <4>2. \A j \in read[k].flags : j \in i..n
                BY <3>1, <3>2
            <4>3. i \in i..n
                BY <3>3
            <4> QED BY <4>1, <4>2, <4>3
        <3>9. ASSUME read[i].result # "invalid", NEW j \in read[i].flags, NeedsNext(a[j])
              PROVE  j < n
            <4>1. CASE j = i
                BY <3>5, <3>6, <3>7, <3>9, <4>1, EscapeIsNoFlag DEF IsRead
            <4>2. CASE j # i
                BY <3>2, <3>5, <3>9, <4>2 DEF IsRead
            <4> QED BY <4>1, <4>2
        <3> QED BY <1>1, <3>4, <3>8, <3>9
    <2> QED BY <1>1, <2>2, <2>3
<1> HIDE DEF G
<1>3. \A i \in 1..N : i \in G
    BY <1>2, FromTheEnd, Zenon
<1> QED BY <1>1, <1>3 DEF G

---------------------------------------------------------------------------
(* The test notification. *)

Fields == {"text", "icon", "duration", "rainbow", "text_case", "center", "repeat", "overlay"}

\* The rule of a field, and what the device shows when it is left out.
LEMMA FieldRules ==
    /\ DOMAIN NotificationRules = Fields
    /\ DOMAIN DeviceDefaults = Fields
    /\ \A f \in Fields : NotificationRules[f] \in {"is_zero", "is_none", "is_unset_name"}
    /\ \A f \in Fields : NotificationRules[f] = "is_zero" =>
                             f \in {"icon", "duration", "rainbow", "text_case"}
    /\ \A f \in Fields : NotificationRules[f] # "is_none" => DeviceDefaults[f] = Zero
<1>1. DOMAIN NotificationRules = Fields
    BY DEF NotificationRules, Fields
<1>2. DOMAIN DeviceDefaults = Fields
    BY <1>1 DEF DeviceDefaults
<1>3. /\ NotificationRules["text"] = "is_none" /\ NotificationRules["icon"] = "is_zero"
      /\ NotificationRules["duration"] = "is_zero" /\ NotificationRules["rainbow"] = "is_zero"
      /\ NotificationRules["text_case"] = "is_zero" /\ NotificationRules["center"] = "is_none"
      /\ NotificationRules["repeat"] = "is_none"
      /\ NotificationRules["overlay"] = "is_unset_name"
    BY DEF NotificationRules
<1>4. \A f \in Fields : f \notin {"center", "repeat"} => DeviceDefaults[f] = Zero
    BY <1>1 DEF DeviceDefaults
<1> QED BY <1>1, <1>2, <1>3, <1>4 DEF Fields

\* What a flag may be given.
Texts == Seq(STRING) \cup {MissingValue}

\* A value that was given is never mistaken for one that was not.
LEMMA FieldValueIsSet ==
    ASSUME NEW f \in {"icon", "duration", "rainbow", "text_case"}, NEW text \in Texts
    PROVE  FieldValue(FlagOf(f), text) # Unset
<1>1. Unset # Zero /\ Unset # Invalid /\ Unset \notin Int /\ Unset \notin BOOLEAN /\ Unset # text
    BY PayloadAssumption, ArgumentsAssumption DEF Texts
<1>2. ParseGoBool(text) \in BOOLEAN \cup {Invalid}
    BY DEF ParseGoBool
<1>3. ParseGoInt(text) \in Int \cup {Invalid}
    <2>1. \A n : IsI64(n) => n \in Int
        BY DEF IsI64
    <2> QED BY <2>1 DEF ParseGoInt
<1>4. FieldValue(FlagOf(f), text) \in {Zero, text, ParseGoInt(text), ParseGoBool(text)}
    <2>1. CASE f = "icon"
        BY <2>1 DEF FieldValue, FlagOf, Typed
    <2>2. CASE f = "duration"
        BY <2>2 DEF FieldValue, FlagOf, Typed
    <2>3. CASE f = "rainbow"
        BY <2>3 DEF FieldValue, FlagOf, Typed
    <2>4. CASE f = "text_case"
        BY <2>4 DEF FieldValue, FlagOf, Typed
    <2> QED BY <2>1, <2>2, <2>3, <2>4
<1>5. ParseGoBool(text) # Unset
    BY <1>1, <1>2
<1>6. ParseGoInt(text) # Unset
    BY <1>1, <1>3
<1> QED BY <1>1, <1>4, <1>5, <1>6

LEMMA ShowsWhatIsGiven ==
    ASSUME NEW given, \A name \in DOMAIN given : given[name] \in Texts
    PROVE  ShownAsGiven(given)
<1> DEFINE payload == Serialized(NotificationRules, Notification(given))
           shown == Merged(DeviceDefaults, payload)
           asked(f) == IF FlagOf(f) \in DOMAIN given
                       THEN FieldValue(FlagOf(f), given[FlagOf(f)]) ELSE Unset
<1>1. DOMAIN shown = Fields
    BY FieldRules DEF Merged, Serialized
<1>2. ASSUME NEW f \in Fields
      PROVE  shown[f] = IF asked(f) = Unset THEN DeviceDefaults[f] ELSE asked(f)
    <2>1. PICK rule \in {"is_zero", "is_none", "is_unset_name"} : rule = NotificationRules[f]
        BY FieldRules
    <2>2. PICK v : v = Notification(given)[f]
        OBVIOUS
    <2>3. shown[f] = IF Omits(rule, v) THEN DeviceDefaults[f] ELSE v
        BY <2>1, <2>2, FieldRules DEF Merged, Serialized
    <2>4. /\ rule = "is_zero" => (Omits(rule, v) <=> v = Zero)
          /\ rule = "is_none" => (Omits(rule, v) <=> v = Unset)
          /\ rule = "is_unset_name" => (Omits(rule, v) <=> v \in {Unset, Zero})
        BY DEF Omits
    <2>5. rule # "is_none" => DeviceDefaults[f] = Zero
        BY <2>1, FieldRules
    <2>6. CASE FlagOf(f) \in DOMAIN given
        <3>1. v = asked(f)
            BY <2>2, <2>6, FieldRules DEF Notification
        <3>2. rule = "is_zero" => v # Unset
            BY <2>1, <2>6, <3>1, FieldRules, FieldValueIsSet
        <3> HIDE DEF asked, shown
        <3> QED BY <2>1, <2>3, <2>4, <2>5, <3>1, <3>2
    <2>7. CASE FlagOf(f) \notin DOMAIN given
        <3>1. v = DefaultOf(rule) /\ asked(f) = Unset
            BY <2>1, <2>2, <2>7, FieldRules DEF Notification
        <3>2. Omits(rule, v)
            BY <2>1, <2>4, <3>1 DEF DefaultOf
        <3> HIDE DEF asked, shown
        <3> QED BY <2>3, <3>1, <3>2
    <2> QED BY <2>6, <2>7
<1> QED BY <1>1, <1>2, Zenon DEF ShownAsGiven

\* The last of the positions clap reads a flag at.
LEMMA GivenTexts ==
    ASSUME NEW a \in Seq(Arguments), Clap(a).result # "invalid"
    PROVE  \A name \in DOMAIN Given(a) : Given(a)[name] \in Texts
<1>1. PICK n \in Nat : n = Len(a)
    OBVIOUS
<1>2. PICK read : IsClap(a, read) /\ Clap(a) = read[1]
    BY ClapReads
<1> DEFINE flags == Clap(a).flags
<1>4. \A j \in flags : j \in 1..n /\ (NeedsNext(a[j]) => j < n)
    <2>1. 1 \in 1..(n + 2)
        OBVIOUS
    <2> QED BY <1>1, <1>2, <2>1, FlagsRead
<1> DEFINE at(name) == {i \in flags : FlagAt(a[i]) = name}
           last(name) == CHOOSE i \in flags :
                             /\ FlagAt(a[i]) = name
                             /\ \A j \in flags : j > i => FlagAt(a[j]) # name
           value(i) == CASE NeedsNext(a[i])               -> AsValue(a[i + 1])
                         [] ~NeedsNext(a[i]) /\ a[i].eq  -> a[i].value
                         [] ~NeedsNext(a[i]) /\ ~a[i].eq -> MissingValue
<1>3. Given(a) = [name \in {FlagAt(a[i]) : i \in flags} |-> value(last(name))]
    BY DEF Given
<1> HIDE DEF flags
<1>5. ASSUME NEW i \in flags PROVE value(i) \in Texts
    <2>0. \A arg \in Arguments : arg.value \in Seq(STRING) /\ arg.eq \in BOOLEAN
        BY DEF Arguments
    <2>1. \A j \in 1..n : a[j].value \in Seq(STRING) /\ a[j].eq \in BOOLEAN
        <3>1. \A j \in 1..n : a[j] \in Arguments
            BY <1>1
        <3> QED BY <2>0, <3>1
    <2>2. CASE NeedsNext(a[i])
        <3>1. PICK j \in 1..n : j = i + 1
            BY <1>4, <2>2
        <3>2. value(i) = AsValue(a[j])
            BY <2>2, <3>1
        <3>3. AsValue(a[j]) \in Seq(STRING)
            <4>1. <<>> \in Seq(STRING)
                OBVIOUS
            <4>2. AsValue(a[j]) = <<>> \/ AsValue(a[j]) = a[j].value
                BY DEF AsValue
            <4> QED BY <2>1, <4>1, <4>2
        <3> HIDE DEF value
        <3> QED BY <3>2, <3>3 DEF Texts
    <2>3. CASE ~NeedsNext(a[i]) /\ a[i].eq
        BY <1>4, <2>1, <2>3 DEF Texts
    <2>4. CASE ~NeedsNext(a[i]) /\ ~a[i].eq
        BY <2>4 DEF Texts
    <2> QED BY <1>4, <2>1, <2>2, <2>3, <2>4
<1>6. ASSUME NEW name \in {FlagAt(a[i]) : i \in flags} PROVE last(name) \in flags
    <2> DEFINE T == {n - i : i \in at(name)}
    <2>1. T # {} /\ T \subseteq Nat
        BY <1>4
    <2>2. PICK x \in T : \A y \in T : x <= y
        BY <2>1, LeastNat
    <2>3. PICK i \in at(name) : x = n - i
        BY <2>2
    <2>4. \A j \in flags : j > i => FlagAt(a[j]) # name
        <3> SUFFICES ASSUME NEW j \in at(name), j > i PROVE FALSE
            OBVIOUS
        <3>1. n - j \in T /\ n - i <= n - j
            BY <2>2, <2>3
        <3>2. i \in 1..n /\ j \in 1..n
            BY <1>4
        <3> QED BY <3>1, <3>2
    <2>5. \E k \in flags : /\ FlagAt(a[k]) = name
                           /\ \A j \in flags : j > k => FlagAt(a[j]) # name
        BY <2>3, <2>4
    <2> QED BY <2>5, Zenon
<1> HIDE DEF last, value
<1> QED BY <1>3, <1>5, <1>6

\* The run loads its configuration only when clap has accepted the arguments.
ArgsInv ==
    /\ args \in {input.args : input \in Inputs}
    /\ phase = "load" => Clap(args).result # "invalid"

LEMMA ArgsStep ==
    ArgsInv /\ [Next]_vars => ArgsInv'
<1> SUFFICES ASSUME ArgsInv, [Next]_vars PROVE ArgsInv'
    OBVIOUS
<1> USE DEF ArgsInv, startVars
<1>1. CASE ParseFlags
    BY <1>1 DEF ParseFlags, Early, Proceed, Goto
<1>2. CASE \E readable \in BOOLEAN : Load(readable)
    BY <1>2 DEF Load, Early, Proceed, Goto
<1>3. CASE StartModes \/ StartBroker \/ BrokerStarted \/ StartControllers
    BY <1>3 DEF StartModes, StartBroker, BrokerStarted, StartControllers, Early, Proceed, Goto
<1>4. CASE SetUp
    BY <1>4 DEF SetUp, Bind, Serve
<1>5. CASE \E byHook \in BOOLEAN : Report(byHook)
    BY <1>5 DEF Report
<1>6. CASE ServerStops \/ Stop \/ ListSessions \/ ThreadFinishes
    BY <1>6 DEF ServerStops, Stop, ListSessions, ThreadFinishes
<1>7. CASE \E s \in Sessions : Device(s)
    BY <1>7 DEF Device, Authenticate, Enter, Leave
<1>8. CASE Shutdown
    BY <1>8 DEF Shutdown, EndLoop, Kicked, Drained, Collected, Exit, Goto
<1>9. CASE Tick
    BY <1>9 DEF Tick
<1>10. CASE UNCHANGED vars
    BY <1>10 DEF vars
<1> QED
    BY <1>1, <1>2, <1>3, <1>4, <1>5, <1>6, <1>7, <1>8, <1>9, <1>10 DEF Next, Start

\* Whatever the command line says of a test notification, the device shows it:
\* the fields that were given with the last value given, a zero included, and
\* its own defaults for the others.
THEOREM TestNotificationShown ==
    Spec => []FlagsReachTheDevice
<1>1. Init => ArgsInv
    BY DEF Init, ArgsInv
<1>2. ArgsInv => FlagsReachTheDevice
    <2> SUFFICES ASSUME ArgsInv, phase = "load" PROVE ShownAsGiven(Given(args))
        BY DEF FlagsReachTheDevice
    <2>1. args \in Seq(Arguments) /\ Clap(args).result # "invalid"
        BY ArgumentsAssumption DEF ArgsInv
    <2>2. \A name \in DOMAIN Given(args) : Given(args)[name] \in Texts
        BY <2>1, GivenTexts, Zenon
    <2> QED BY <2>2, ShowsWhatIsGiven, Zenon
<1> QED BY <1>1, <1>2, ArgsStep, PTL DEF Spec

---------------------------------------------------------------------------
(* The scan for the single-dash long form. *)

AfterScan(a, i) == IF TakesNext(a[i]) THEN i + 2 ELSE i + 1

\* What the scan finds, from each position on.
ScanFlag(a, i, rest) ==
    IF IsEscape(a[i]) THEN 0 ELSE IF IsSingleDashLong(a[i]) THEN i ELSE rest

IsScan(a, scan) ==
    scan = [i \in 1..(Len(a) + 2) |->
               IF i > Len(a) \/ IsEscape(a[i]) THEN 0
               ELSE IF IsSingleDashLong(a[i]) THEN i
               ELSE scan[AfterScan(a, i)]]

LEMMA ScanReads ==
    ASSUME NEW a, Len(a) \in Nat
    PROVE  \E scan : IsScan(a, scan) /\ SingleDashLongForm(a) = scan[1]
<1> DEFINE n == Len(a)
           V == 0..n
           step == [p \in (1..n) \X V |-> ScanFlag(a, p[1], p[2])]
           after == [i \in 1..n |-> AfterScan(a, i)]
<1>1. 0 \in V
    OBVIOUS
<1>2. step \in [(1..n) \X V -> V]
    BY DEF ScanFlag
<1>3. after \in [1..n -> Nat] /\ \A i \in 1..n : after[i] \in {i + 1, i + 2}
    BY DEF AfterScan
<1>4. PICK f \in [1..(n + 2) -> V] : IsReading(f, 1, n, 0, step, after)
    <2> HIDE DEF n, V, step, after
    <2>1. n \in Nat
        BY DEF n
    <2> QED BY <1>1, <1>2, <1>3, <2>1, ReadingExists
<1>5. \A i \in 1..(n + 2) :
          f[i] = IF i > n \/ IsEscape(a[i]) THEN 0
                 ELSE IF IsSingleDashLong(a[i]) THEN i
                 ELSE f[AfterScan(a, i)]
    <2> SUFFICES ASSUME NEW i \in 1..(n + 2)
                 PROVE  f[i] = IF i > n \/ IsEscape(a[i]) THEN 0
                               ELSE IF IsSingleDashLong(a[i]) THEN i
                               ELSE f[AfterScan(a, i)]
        OBVIOUS
    <2>1. f[i] = IF i > n THEN 0 ELSE step[<<i, f[after[i]]>>]
        BY <1>4 DEF IsReading
    <2>2. CASE i > n
        BY <2>1, <2>2
    <2>3. CASE i <= n
        <3>1. after[i] = AfterScan(a, i) /\ AfterScan(a, i) \in 1..(n + 2)
            BY <2>3 DEF AfterScan
        <3>2. f[AfterScan(a, i)] \in V
            BY <3>1
        <3>3. step[<<i, f[AfterScan(a, i)]>>] = ScanFlag(a, i, f[AfterScan(a, i)])
            BY <2>3, <3>2
        <3>4. f[i] = ScanFlag(a, i, f[AfterScan(a, i)])
            BY <2>1, <2>3, <3>1, <3>3
        <3> QED BY <2>3, <3>4 DEF ScanFlag
    <2> QED BY <2>2, <2>3
<1>6. IsScan(a, f)
    BY <1>4, <1>5 DEF IsScan
<1>7. SingleDashLongForm(a) = (CHOOSE scan : IsScan(a, scan))[1]
    BY DEF SingleDashLongForm, IsScan, AfterScan
<1>8. IsScan(a, CHOOSE scan : IsScan(a, scan))
    BY <1>6, Zenon
<1> QED BY <1>7, <1>8, Zenon

LEMMA NotEmpty ==
    ASSUME NEW S, NEW s \in Seq(S), s # <<>>
    PROVE  Len(s) \in Nat /\ Len(s) > 0 /\ DOMAIN s = 1..Len(s)
OBVIOUS

\* The flag that ends a cluster, -v being the only one that others may follow.
LEMMA LastShortExists ==
    ASSUME NEW chars \in Seq(STRING), chars # <<>>
    PROVE  /\ LastShort(chars) \in 1..Len(chars)
           /\ chars[LastShort(chars)] # "v" \/ LastShort(chars) = Len(chars)
           /\ \A j \in 1..(LastShort(chars) - 1) : chars[j] = "v"
<1> DEFINE m == Len(chars)
           T == {i \in 1..m : chars[i] # "v" \/ i = m}
<1>1. m \in Nat /\ m > 0 /\ DOMAIN chars = 1..m
    OBVIOUS
<1>2. m \in T /\ T \subseteq Nat
    BY <1>1
<1>3. PICK x \in T : \A y \in T : x <= y
    BY <1>2, LeastNat
<1> HIDE DEF m
<1>4. \A j \in 1..(x - 1) : chars[j] = "v"
    <2> SUFFICES ASSUME NEW j \in 1..(x - 1) PROVE chars[j] = "v"
        OBVIOUS
    <2>1. x \in 1..m
        BY <1>3
    <2>2. j \in 1..m /\ j < x
        BY <1>1, <2>1
    <2> QED BY <1>3, <2>2
<1>5. \E i \in DOMAIN chars : /\ chars[i] # "v" \/ i = Len(chars)
                              /\ \A j \in 1..(i - 1) : chars[j] = "v"
    BY <1>1, <1>3, <1>4 DEF m
<1>6. /\ LastShort(chars) \in DOMAIN chars
      /\ chars[LastShort(chars)] # "v" \/ LastShort(chars) = Len(chars)
      /\ \A j \in 1..(LastShort(chars) - 1) : chars[j] = "v"
    BY <1>5, Zenon DEF LastShort
<1> QED BY <1>1, <1>6 DEF m

LEMMA ClusterEnds ==
    ASSUME NEW chars \in Seq(STRING), chars # <<>>, chars[LastShort(chars)] # "h"
    PROVE  EndsWithOption(chars) <=> /\ LastShort(chars) = Len(chars)
                                     /\ chars[LastShort(chars)] \in {"c", "l"}
<1>1. PICK m \in Nat : m = Len(chars) /\ m > 0 /\ DOMAIN chars = 1..m
    BY NotEmpty
<1>2. PICK l \in 1..m : l = LastShort(chars)
    BY <1>1, LastShortExists
<1>3. (chars[l] # "v" \/ l = m) /\ \A j \in 1..(l - 1) : chars[j] = "v"
    BY <1>1, <1>2, LastShortExists
<1>4. ShortNames \ SeparateShort = {"v", "h"} /\ SeparateShort = {"c", "l"}
    BY DEF ShortNames, SeparateShort
<1>5. EndsWithOption(chars) <=> /\ chars[m] \in {"c", "l"}
                                /\ \A i \in 1..(m - 1) : chars[i] \in {"v", "h"}
    BY <1>1, <1>4 DEF EndsWithOption
<1>6. CASE l = m
    <2>1. EndsWithOption(chars) <=> chars[m] \in {"c", "l"}
        BY <1>3, <1>5, <1>6
    <2> QED BY <1>1, <1>2, <1>6, <2>1
<1>7. CASE l # m
    <2>1. l \in 1..(m - 1) /\ chars[l] \notin {"v", "h"}
        BY <1>1, <1>2, <1>3, <1>7
    <2>2. ~EndsWithOption(chars)
        BY <1>5, <2>1
    <2> QED BY <1>1, <1>2, <1>7, <2>2
<1> QED BY <1>6, <1>7

\* An "=" is no short flag.
LEMMA ClusterHasNoEq ==
    ASSUME NEW chars \in Seq(STRING), EndsWithOption(chars)
    PROVE  "=" \notin {chars[k] : k \in DOMAIN chars}
<1>1. PICK m \in Nat : m = Len(chars) /\ DOMAIN chars = 1..m
    OBVIOUS
<1>2. ASSUME NEW i \in 1..m PROVE chars[i] \in {"v", "h", "c", "l"}
    <2>1. CASE i = m
        BY <1>1, <2>1 DEF EndsWithOption, SeparateShort
    <2>2. CASE i \in 1..(m - 1)
        BY <1>1, <2>2 DEF EndsWithOption, ShortNames
    <2> QED BY <2>1, <2>2
<1> QED BY <1>1, <1>2

LEMMA TwoDashes == 1 # 2
OBVIOUS

\* A flag takes the next argument by clap's rules exactly when the scan skips it.
LEMMA ScanSkipsValues ==
    ASSUME NEW arg \in Arguments, FlagAt(arg) \notin {"", "help"},
           arg.dashes = 1 /\ arg.eq => "=" \in {arg.chars[k] : k \in DOMAIN arg.chars}
    PROVE  TakesNext(arg) <=> NeedsNext(arg)
<1>1. arg.chars \in Seq(STRING)
    BY DEF Arguments
<1>2. CASE arg.dashes = 2
    <2>1. arg.dashes # 1
        BY <1>2, TwoDashes, Zenon
    <2>2. arg.name \in LongNames /\ FlagAt(arg) = arg.name
        BY <1>2, <2>1, Zenon DEF FlagAt
    <2> QED BY <1>2, <2>1, <2>2, Zenon DEF TakesNext, NeedsNext
<1>3. CASE arg.dashes = 1
    <2>1. arg.dashes # 2
        BY <1>3, TwoDashes, Zenon
    <2>2. PICK chars \in Seq(STRING) : chars = arg.chars
        BY <1>1
    <2>3. chars # <<>>
        BY <2>1, <2>2, Zenon DEF FlagAt
    <2>4. PICK last : last = chars[LastShort(chars)]
        OBVIOUS
    <2>5. FlagAt(arg) = CASE last = "c" -> "config"
                          [] last = "l" -> "log-level"
                          [] last = "h" -> "help"
                          [] last \in {"v", "="} /\ chars[1] = "v" -> "version"
                          [] OTHER -> ""
        BY <1>3, <2>1, <2>2, <2>3, <2>4, Zenon DEF FlagAt
    <2>6. last # "h" /\ (last \in {"c", "l"} <=> FlagAt(arg) \in Separate)
        BY <2>5 DEF Separate
    <2>7. EndsWithOption(chars) <=> LastShort(chars) = Len(chars) /\ FlagAt(arg) \in Separate
        BY <2>3, <2>4, <2>6, ClusterEnds
    <2>8. TakesNext(arg) <=> EndsWithOption(chars)
        BY <1>3, <2>1, <2>2, Zenon DEF TakesNext
    <2>9. TakesNext(arg) => ~arg.eq
        BY <1>3, <2>2, <2>8, ClusterHasNoEq, Zenon
    <2> QED BY <1>3, <2>2, <2>7, <2>8, <2>9, Zenon DEF NeedsNext
<1>4. CASE arg.dashes # 1 /\ arg.dashes # 2
    BY <1>4, Zenon DEF FlagAt
<1> QED BY <1>2, <1>3, <1>4, Zenon

\* From each position on, the scan finds no value of a flag that clap reads, and
\* nothing only when clap reads no flag in that form.
Agrees(a, i, found, out) ==
    /\ found = 0 \/ found \in i..Len(a)
    /\ out.result # "invalid" =>
          /\ \A j \in out.flags : NeedsNext(a[j]) => found # j + 1
          /\ found = 0 => \A j \in out.flags : ~IsSingleDashLong(a[j])

LEMMA ScanAgreesFrom ==
    ASSUME NEW a \in Seq(Arguments), NEW n \in Nat, n = Len(a),
           \A i \in 1..n : a[i].dashes = 1 /\ a[i].eq =>
                              "=" \in {a[i].chars[k] : k \in DOMAIN a[i].chars},
           NEW read, IsClap(a, read), NEW scan, IsScan(a, scan)
    PROVE  \A i \in 1..(n + 2) : Agrees(a, i, scan[i], read[i])
<1> DEFINE G == {i \in 1..(n + 2) : Agrees(a, i, scan[i], read[i])}
<1>1. PICK N \in Nat : N = n + 2
    OBVIOUS
<1>2. ASSUME NEW i \in 1..N, \A j \in 1..N : i < j => j \in G PROVE i \in G
    <2>1. read[i] = IF i > n THEN Nothing ELSE ReadFlag(a, i, read[AfterFlag(a, i)])
        BY <1>1 DEF IsClap
    <2>2. scan[i] = IF i > n \/ IsEscape(a[i]) THEN 0
                    ELSE IF IsSingleDashLong(a[i]) THEN i
                    ELSE scan[AfterScan(a, i)]
        BY <1>1 DEF IsScan
    <2>3. IsEscape(a[i]) => ~IsSingleDashLong(a[i])
        BY TwoDashes, Zenon DEF IsEscape, IsSingleDashLong
    <2>4. CASE i > n
        <3>1. read[i] = Nothing /\ Nothing.flags = {} /\ scan[i] = 0
            BY <2>1, <2>2, <2>4 DEF Nothing
        <3> QED BY <1>1, <3>1 DEF Agrees
    <2>5. CASE i <= n
        <3>1. PICK k \in 1..N : k = AfterFlag(a, i) /\ i < k
            BY <1>1, <2>5 DEF AfterFlag
        <3>2. Agrees(a, k, scan[k], read[k])
            BY <1>2, <3>1
        <3>3. i \in 1..n /\ read[i] = ReadFlag(a, i, read[k])
            BY <2>1, <2>5, <3>1
        <3>4. IsRead(a, i, read[k], read[i])
            BY <3>3, ReadFlagCases
        <3>5. \A j \in read[i].flags : j \in i..n
            BY <1>1, FlagsRead
        <3>6. FlagAt(a[i]) \in {"", "help"} => ~NeedsNext(a[i])
            BY DEF NeedsNext, Separate
        <3>7. CASE IsSingleDashLong(a[i])
            <4>1. scan[i] = i
                BY <2>2, <2>3, <2>5, <3>7
            <4> QED BY <1>1, <3>3, <3>5, <4>1 DEF Agrees
        <3>8. CASE IsEscape(a[i])
            <4>1. scan[i] = 0
                BY <2>2, <3>8
            <4>2. FlagAt(a[i]) = ""
                BY <3>8, EscapeIsNoFlag
            <4>3. read[i].flags = {i}
                BY <3>4, <4>2 DEF IsRead
            <4> QED BY <1>1, <2>3, <3>6, <3>8, <4>1, <4>2, <4>3 DEF Agrees
        <3>9. CASE ~IsSingleDashLong(a[i]) /\ ~IsEscape(a[i])
            <4>1. AfterScan(a, i) \in {i + 1, i + 2}
                BY DEF AfterScan
            <4>2. PICK l \in 1..N : l = AfterScan(a, i) /\ i < l
                BY <1>1, <3>3, <4>1
            <4>3. Agrees(a, l, scan[l], read[l]) /\ scan[i] = scan[l]
                BY <1>2, <2>2, <2>5, <3>9, <4>2
            <4>4. scan[i] = 0 \/ scan[i] \in i..n
                BY <4>2, <4>3 DEF Agrees
            <4>5. ASSUME read[i].result # "invalid"
                  PROVE  /\ \A j \in read[i].flags : NeedsNext(a[j]) => scan[i] # j + 1
                         /\ scan[i] = 0 => \A j \in read[i].flags : ~IsSingleDashLong(a[j])
                <5>1. CASE FlagAt(a[i]) = "help" /\ read[i].flags = {i}
                    BY <3>6, <3>9, <5>1
                <5>2. CASE /\ read[i].result = read[k].result
                           /\ read[i].flags = read[k].flags \cup {i}
                           /\ FlagAt(a[i]) \notin {"", "help"}
                    <6>1. a[i] \in Arguments
                        BY <3>3
                    <6>2. TakesNext(a[i]) <=> NeedsNext(a[i])
                        BY <3>3, <5>2, <6>1, ScanSkipsValues, Zenon
                    <6>3. l = k
                        BY <3>1, <4>2, <6>2 DEF AfterScan, AfterFlag
                    <6>4. NeedsNext(a[i]) => scan[i] # i + 1
                        BY <3>1, <3>3, <4>3, <6>3 DEF Agrees, AfterFlag
                    <6> QED BY <3>2, <3>9, <4>3, <4>5, <5>2, <6>3, <6>4 DEF Agrees
                <5> QED BY <3>4, <3>9, <4>5, <5>1, <5>2 DEF IsRead
            <4> QED BY <1>1, <4>4, <4>5 DEF Agrees
        <3> QED BY <3>7, <3>8, <3>9
    <2> QED BY <1>1, <2>4, <2>5
<1> HIDE DEF G
<1>3. \A i \in 1..N : i \in G
    BY <1>2, FromTheEnd, Zenon
<1> QED BY <1>1, <1>3 DEF G

\* However many arguments there are: where clap accepts them, the scan refuses no
\* value of a flag, and lets no flag in Go's form through.
THEOREM ScanSeesWhatClapSees ==
    Spec => []ScanAgreesWithClap
<1>1. Init => ArgsInv
    BY DEF Init, ArgsInv
<1>2. ArgsInv => ScanAgreesWithClap
    <2> SUFFICES ASSUME ArgsInv PROVE ScanAgreesWithClap
        OBVIOUS
    <2>1. PICK input \in Inputs : args = input.args
        BY DEF ArgsInv
    <2>2. PICK a \in Seq(Arguments) : a = args
        BY <2>1, ArgumentsAssumption
    <2>3. PICK n \in Nat : n = Len(a) /\ DOMAIN a = 1..n
        OBVIOUS
    <2>4. \A i \in 1..n : a[i].dashes = 1 /\ a[i].eq =>
                              "=" \in {a[i].chars[k] : k \in DOMAIN a[i].chars}
        BY <2>1, <2>2, <2>3, ArgumentsAssumption
    <2>5. PICK read : IsClap(a, read) /\ Clap(a) = read[1]
        BY <2>3, ClapReads
    <2>6. PICK scan : IsScan(a, scan) /\ SingleDashLongForm(a) = scan[1]
        BY <2>3, ScanReads
    <2>7. 1 \in 1..(n + 2)
        OBVIOUS
    <2>8. Agrees(a, 1, scan[1], read[1])
        BY <2>3, <2>4, <2>5, <2>6, <2>7, ScanAgreesFrom
    <2>9. Agrees(args, 1, SingleDashLongForm(args), Clap(args))
        BY <2>2, <2>5, <2>6, <2>8, Zenon
    <2> QED BY <2>9 DEF ScanAgreesWithClap, Agrees
<1> QED BY <1>1, <1>2, ArgsStep, PTL DEF Spec

---------------------------------------------------------------------------
(* The literals. *)

\* The characters of a text.  The provers do not know that these are strings.
Chars == STRING \cup {"0", "x", "o", "b", "+", "-", "_", ".", "e"}

\* Those that mean something, under a name: a text is then a sequence of any
\* characters, and what matters is only which of them differ.
Naught == "0"
Hex == "x"
Octal == "o"
Binary == "b"
Plus == "+"
Minus == "-"
Mark == "_"
Point == "."
Exponent == "e"

LEMMA CharFacts ==
    /\ {Naught, Hex, Octal, Binary, Plus, Minus, Mark, Point, Exponent} \subseteq Chars
    /\ {Naught} \cap {Hex, Octal, Binary, Plus, Minus, Mark, Point, Exponent} = {}
    /\ {Hex, Octal, Binary} \cap {Plus, Minus, Mark, Point, Exponent} = {}
    /\ {Plus, Minus} \cap {Mark, Point, Exponent} = {}
    /\ Hex # Octal /\ Hex # Binary /\ Octal # Binary /\ Plus # Minus
BY DEF Chars, Naught, Hex, Octal, Binary, Plus, Minus, Mark, Point, Exponent

\* Induction over 0..n, with a set for the predicate.
LEMMA Upward ==
    ASSUME NEW n \in Nat, NEW G, 0 \in G, \A i \in 1..n : i - 1 \in G => i \in G
    PROVE  0..n \subseteq G
<1> DEFINE T == {i \in 0..n : i \notin G}
<1> SUFFICES ASSUME T # {} PROVE FALSE
    OBVIOUS
<1>1. PICK k \in T : \A l \in T : k <= l
    <2>1. T \subseteq Nat
        OBVIOUS
    <2> QED BY <2>1, LeastNat, Zenon
<1>2. k \in 1..n
    OBVIOUS
<1>3. k - 1 \in T
    BY <1>2
<1> HIDE DEF T
<1> QED BY <1>1, <1>2, <1>3

\* A function over 0..n that is given by its first value and its steps.
IsRecursion(f, n, V, base, step) ==
    /\ f \in [0..n -> V] /\ f[0] = base
    /\ \A i \in 1..n : f[i] = step[<<i, f[i - 1]>>]

LEMMA RecursionExists ==
    ASSUME NEW V, NEW base \in V, NEW n \in Nat, NEW step \in [(1..n) \X V -> V]
    PROVE  \E f : IsRecursion(f, n, V, base, step)
<1> DEFINE Solves(f, k) == IsRecursion(f, k, V, base, step)
           G == {k \in 0..n : \E f : Solves(f, k)}
<1>1. \E f : Solves(f, 0)
    <2>1. Solves([i \in 0..0 |-> base], 0)
        BY DEF IsRecursion
    <2> QED BY <2>1
<1>2. ASSUME NEW k \in 1..n, NEW f, Solves(f, k - 1)
      PROVE  \E e : Solves(e, k)
    <2> USE <1>2 DEF IsRecursion
    <2> DEFINE e == [i \in 0..k |-> IF i = k THEN step[<<k, f[k - 1]>>] ELSE f[i]]
    <2>1. f[k - 1] \in V
        BY <1>2
    <2>2. step[<<k, f[k - 1]>>] \in V
        BY <2>1
    <2>3. \A i \in 0..(k - 1) : e[i] = f[i]
        OBVIOUS
    <2>4. e \in [0..k -> V]
        BY <1>2, <2>2
    <2>5. e[0] = base
        BY <1>2, <2>3
    <2>6. \A i \in 1..k : e[i] = step[<<i, e[i - 1]>>]
        <3> SUFFICES ASSUME NEW i \in 1..k
                     PROVE  e[i] = step[<<i, e[i - 1]>>]
            OBVIOUS
        <3>1. e[i - 1] = f[i - 1]
            BY <2>3
        <3>2. CASE i = k
            <4>1. e[k] = step[<<k, f[k - 1]>>]
                OBVIOUS
            <4> HIDE DEF e
            <4> QED BY <3>1, <3>2, <4>1
        <3>3. CASE i # k
            <4>1. i \in 1..(k - 1) /\ i \in 0..(k - 1)
                BY <3>3
            <4>2. f[i] = step[<<i, f[i - 1]>>]
                BY <1>2, <4>1
            <4> QED BY <2>3, <3>1, <4>1, <4>2
        <3> QED BY <3>2, <3>3
    <2> HIDE DEF e
    <2> QED BY <2>4, <2>5, <2>6
<1> HIDE DEF Solves
<1>3. 0..n \subseteq G
    <2>1. 0 \in G
        BY <1>1
    <2>2. \A k \in 1..n : k - 1 \in G => k \in G
        BY <1>2
    <2> HIDE DEF G
    <2> QED BY <2>1, <2>2, Upward
<1>4. n \in 0..n
    OBVIOUS
<1>5. \E f : Solves(f, n)
    BY <1>3, <1>4
<1> QED BY <1>5 DEF Solves

\* The powers of two, as the function that defines them.
LEMMA PowersExist ==
    ASSUME NEW n \in Nat
    PROVE  \E f \in [0..n -> Nat] :
               /\ PowerOfTwo(n) = f[n]
               /\ f[0] = 1 /\ \A i \in 1..n : f[i] = 2 * f[i - 1]
<1> DEFINE Rec(f) == f = [i \in 0..n |-> IF i = 0 THEN 1 ELSE 2 * f[i - 1]]
           step == [p \in (1..n) \X Nat |-> 2 * p[2]]
           f == CHOOSE f : Rec(f)
<1>1. \E e : Rec(e)
    <2>1. step \in [(1..n) \X Nat -> Nat]
        OBVIOUS
    <2>2. PICK e : IsRecursion(e, n, Nat, 1, step)
        <3> DEFINE V == Nat
        <3>1. 1 \in V /\ step \in [(1..n) \X V -> V]
            BY <2>1
        <3> HIDE DEF step, V
        <3>2. \E e : IsRecursion(e, n, V, 1, step)
            BY <3>1, RecursionExists
        <3> QED BY <3>2 DEF V
    <2> USE <2>2 DEF IsRecursion
    <2>3. \A i \in 1..n : e[i] = 2 * e[i - 1]
        <3> TAKE i \in 1..n
        <3>1. e[i - 1] \in Nat
            OBVIOUS
        <3> QED BY <2>2, <3>1
    <2>4. Rec(e)
        BY <2>2, <2>3
    <2> QED BY <2>4
<1>2. Rec(f)
    <2> HIDE DEF Rec
    <2> QED BY <1>1
<1>3. PowerOfTwo(n) = f[n]
    BY DEF PowerOfTwo
<1> HIDE DEF f
<1>4. f[0] = 1 /\ \A i \in 1..n : f[i] = 2 * f[i - 1]
    BY <1>2
<1> DEFINE G == {i \in 0..n : f[i] \in Nat}
<1>5. 0..n \subseteq G
    <2>1. 0 \in G /\ \A i \in 1..n : i - 1 \in G => i \in G
        BY <1>4
    <2> HIDE DEF G
    <2> QED BY <2>1, Upward
<1>6. f \in [0..n -> Nat]
    BY <1>2, <1>5
<1> QED BY <1>3, <1>4, <1>6

LEMMA PowerFacts ==
    ASSUME NEW n \in Nat
    PROVE  PowerOfTwo(n) \in Nat \ {0} /\ PowerOfTwo(n + 1) = 2 * PowerOfTwo(n)
<1>1. PICK f \in [0..n -> Nat] :
          PowerOfTwo(n) = f[n] /\ f[0] = 1 /\ \A i \in 1..n : f[i] = 2 * f[i - 1]
    BY PowersExist
<1>2. PICK g \in [0..(n + 1) -> Nat] :
          PowerOfTwo(n + 1) = g[n + 1] /\ g[0] = 1 /\ \A i \in 1..(n + 1) : g[i] = 2 * g[i - 1]
    <2>1. n + 1 \in Nat
        OBVIOUS
    <2> QED BY <2>1, PowersExist, Zenon
<1> DEFINE G == {i \in 0..n : f[i] = g[i] /\ f[i] # 0}
<1>3. 0..n \subseteq G
    <2>1. 0 \in G
        BY <1>1, <1>2
    <2>2. ASSUME NEW i \in 1..n, i - 1 \in G PROVE i \in G
        <3>1. f[i] = 2 * f[i - 1] /\ g[i] = 2 * g[i - 1]
            BY <1>1, <1>2
        <3>2. f[i - 1] \in Nat /\ f[i - 1] = g[i - 1] /\ f[i - 1] # 0
            BY <2>2
        <3> QED BY <3>1, <3>2
    <2> HIDE DEF G
    <2> QED BY <2>1, <2>2, Upward
<1>4. f[n] = g[n] /\ f[n] # 0 /\ f[n] \in Nat
    BY <1>3
<1>5. g[n + 1] = 2 * g[n]
    BY <1>2
<1> QED BY <1>1, <1>2, <1>4, <1>5

\* The bounds of the integers: u64 reaches twice as far as i64.
LEMMA WidthFacts ==
    \E limit \in Nat \ {0} :
        /\ \A n : IsI64(n) <=> n \in -limit..(limit - 1)
        /\ \A n : IsU64(n) <=> n \in 0..(2 * limit - 1)
        /\ limit = PowerOfTwo(Width - 1) /\ LeastI64 = -limit
<1> DEFINE limit == PowerOfTwo(Width - 1)
<1>1. Width - 1 \in Nat /\ (Width - 1) + 1 = Width
    BY LiteralsAssumption
<1>2. limit \in Nat \ {0} /\ PowerOfTwo(Width) = 2 * limit
    BY <1>1, PowerFacts
<1>3. LeastI64 = -limit
    BY DEF LeastI64
<1> HIDE DEF limit
<1>4. -LeastI64 - 1 = limit - 1
    BY <1>2, <1>3
<1>5. \A n : IsU64(n) <=> n \in 0..(2 * limit - 1)
    BY <1>2 DEF IsU64
<1>6. \A n : IsI64(n) <=> n \in -limit..(limit - 1)
    BY <1>3, <1>4 DEF IsI64
<1> QED BY <1>2, <1>3, <1>5, <1>6 DEF limit

LEMMA PowerAdds ==
    ASSUME NEW m \in Nat, NEW n \in Nat
    PROVE  PowerOfTwo(m + n) = PowerOfTwo(m) * PowerOfTwo(n)
<1> DEFINE G == {i \in 0..n : PowerOfTwo(m + i) = PowerOfTwo(m) * PowerOfTwo(i)}
<1>1. PowerOfTwo(0) = 1
    <2>1. PICK f : PowerOfTwo(0) = f[0] /\ f[0] = 1
        BY PowersExist
    <2> QED BY <2>1
<1>2. PowerOfTwo(m) \in Nat
    BY PowerFacts
<1>3. 0 \in G
    <2>1. m + 0 = m /\ PowerOfTwo(m) * 1 = PowerOfTwo(m)
        BY <1>2
    <2> QED BY <1>1, <2>1
<1>4. ASSUME NEW i \in 1..n, i - 1 \in G PROVE i \in G
    <2>1. i - 1 \in Nat /\ (i - 1) + 1 = i /\ m + (i - 1) \in Nat /\ (m + (i - 1)) + 1 = m + i
        OBVIOUS
    <2>2. PowerOfTwo(i) = 2 * PowerOfTwo(i - 1) /\ PowerOfTwo(i - 1) \in Nat
        BY <2>1, PowerFacts
    <2>3. PowerOfTwo(m + i) = 2 * PowerOfTwo(m + (i - 1))
        BY <2>1, PowerFacts
    <2>4. PowerOfTwo(m + (i - 1)) = PowerOfTwo(m) * PowerOfTwo(i - 1)
        BY <1>4
    <2>5. \A a, b \in Nat : 2 * (a * b) = a * (2 * b)
        OBVIOUS
    <2>6. PowerOfTwo(m + i) = PowerOfTwo(m) * PowerOfTwo(i)
        BY <1>2, <2>2, <2>3, <2>4, <2>5
    <2> QED BY <2>6
<1>5. n \in G
    <2>1. \A i \in 1..n : i - 1 \in G => i \in G
        BY <1>4
    <2> HIDE DEF G
    <2> QED BY <1>3, <2>1, Upward
<1> QED BY <1>5

LEMMA PowerInOrder ==
    ASSUME NEW m \in Nat, NEW n \in Nat, m <= n
    PROVE  PowerOfTwo(m) <= PowerOfTwo(n)
<1>1. n - m \in Nat /\ m + (n - m) = n
    OBVIOUS
<1>2. PowerOfTwo(n) = PowerOfTwo(m) * PowerOfTwo(n - m)
    BY <1>1, PowerAdds
<1>3. PowerOfTwo(m) \in Nat \ {0} /\ PowerOfTwo(n - m) \in Nat \ {0}
    BY <1>1, PowerFacts
<1>4. \A a, b \in Nat \ {0} : a <= a * b
    OBVIOUS
<1> QED BY <1>2, <1>3, <1>4

LEMMA PowerExceeds ==
    ASSUME NEW n \in Nat
    PROVE  n < PowerOfTwo(n)
<1> DEFINE G == {i \in 0..n : i < PowerOfTwo(i)}
<1>1. 0 \in G
    BY PowerFacts
<1>2. ASSUME NEW i \in 1..n, i - 1 \in G PROVE i \in G
    <2>1. i - 1 \in Nat /\ (i - 1) + 1 = i
        OBVIOUS
    <2>2. PowerOfTwo(i) = 2 * PowerOfTwo(i - 1) /\ PowerOfTwo(i - 1) \in Nat \ {0}
        BY <2>1, PowerFacts
    <2>3. i - 1 < PowerOfTwo(i - 1)
        BY <1>2
    <2>4. i < PowerOfTwo(i)
        BY <2>2, <2>3
    <2> QED BY <2>4
<1>3. n \in G
    <2>1. \A i \in 1..n : i - 1 \in G => i \in G
        BY <1>2
    <2> HIDE DEF G
    <2> QED BY <1>1, <2>1, Upward
<1> QED BY <1>3

LEMMA HalfEvenFacts ==
    ASSUME NEW n \in Nat, NEW unit \in Nat \ {0}, NEW least \in Nat, least * unit <= n
    PROVE  /\ RoundHalfEven(n, unit) \in Nat /\ RoundHalfEven(n, unit) >= least
           /\ RoundHalfEven(n, unit) = least => 2 * (n - least * unit) <= unit
<1> DEFINE q == n \div unit
           rest == n % unit
<1>1. q \in Int /\ rest \in 0..(unit - 1) /\ n = q * unit + rest
    OBVIOUS
<1>2. RoundHalfEven(n, unit) =
          IF 2 * rest > unit \/ (2 * rest = unit /\ q % 2 = 1) THEN q + 1 ELSE q
    BY DEF RoundHalfEven
<1> HIDE DEF q, rest
<1>3. q >= least
    <2> SUFFICES ASSUME q + 1 <= least PROVE FALSE
        BY <1>1
    <2>1. \A a, b, u \in Int : a <= b /\ u >= 0 => a * u <= b * u
        OBVIOUS
    <2>2. (q + 1) * unit <= least * unit
        BY <1>1, <2>1
    <2>3. \A a, u \in Int : (a + 1) * u = a * u + u
        OBVIOUS
    <2>4. (q + 1) * unit = q * unit + unit
        BY <1>1, <2>3
    <2>5. PICK product \in Int : product = q * unit
        BY <1>1
    <2> QED BY <1>1, <2>2, <2>4, <2>5
<1>4. RoundHalfEven(n, unit) = least => q = least /\ 2 * rest <= unit
    BY <1>1, <1>2, <1>3
<1>5. q = least => rest = n - least * unit
    <2>1. PICK product \in Int : product = q * unit
        BY <1>1
    <2> QED BY <1>1, <2>1
<1>6. q \in Nat /\ RoundHalfEven(n, unit) \in {q, q + 1}
    BY <1>1, <1>2, <1>3
<1> QED BY <1>3, <1>4, <1>5, <1>6

\* The float of a number that reaches the limit reaches it as well, and is the
\* limit only if the number is near.
LEMMA NearestFloatFacts ==
    ASSUME NEW n \in Nat, n >= -LeastI64
    PROVE  /\ NearestFloat(n, 1) \in Nat /\ NearestFloat(n, 1) >= -LeastI64
           /\ NearestFloat(n, 1) = -LeastI64 =>
                  n - (-LeastI64) <= PowerOfTwo(Width - Precision - 1)
<1> DEFINE limit == PowerOfTwo(Width - 1)
           P(e) == PowerOfTwo(Precision + e)
           Shifts == {e \in 1..n : n < 1 * P(e) /\ n >= 1 * PowerOfTwo(Precision + e - 1)}
           shift == CHOOSE e \in 1..n : /\ n < 1 * P(e)
                                        /\ n >= 1 * PowerOfTwo(Precision + e - 1)
           unit == PowerOfTwo(shift)
           float == RoundHalfEven(n, 1 * unit)
           half == PowerOfTwo(Width - Precision - 1)
<1>1. /\ Width - 1 \in Nat /\ Precision - 1 \in Nat /\ Precision \in Nat
      /\ Precision <= Width - 1 /\ Width - Precision - 1 \in Nat /\ Width - Precision \in Nat
      /\ (Width - Precision - 1) + 1 = Width - Precision
      /\ (Precision - 1) + (Width - Precision) = Width - 1 /\ (Precision - 1) + 1 = Precision
    BY LiteralsAssumption
<1>2. limit \in Nat \ {0} /\ LeastI64 = -limit /\ half \in Nat
    BY <1>1, PowerFacts DEF LeastI64
<1>3. n >= limit
    BY <1>2
<1>4. n >= 1 * PowerOfTwo(Precision)
    <2>1. PowerOfTwo(Precision) <= limit
        BY <1>1, PowerInOrder
    <2>2. PowerOfTwo(Precision) \in Nat
        BY <1>1, PowerFacts
    <2> HIDE DEF limit
    <2> QED BY <1>2, <1>3, <2>1, <2>2
<1>5. NearestFloat(n, 1) = float * unit
    BY <1>4 DEF NearestFloat
<1>6. shift \in 1..n /\ n < PowerOfTwo(Precision + shift) /\ n >= PowerOfTwo(Precision + shift - 1)
    <2> DEFINE S == {e \in Nat : n < PowerOfTwo(Precision + e)}
    <2>1. n \in S
        <3>1. n < PowerOfTwo(n) /\ PowerOfTwo(n) <= PowerOfTwo(Precision + n)
            BY <1>1, PowerExceeds, PowerInOrder
        <3>2. PowerOfTwo(n) \in Nat /\ PowerOfTwo(Precision + n) \in Nat
            BY <1>1, PowerFacts
        <3> QED BY <3>1, <3>2
    <2>2. PICK e \in S : \A f \in S : e <= f
        <3>1. S \subseteq Nat /\ S # {}
            BY <2>1
        <3> HIDE DEF S
        <3> QED BY <3>1, LeastNat, Zenon
    <2>3. e \in Nat /\ e <= n /\ n < PowerOfTwo(Precision + e)
        BY <2>1, <2>2
    <2>4. e # 0
        <3> SUFFICES ASSUME e = 0 PROVE FALSE
            OBVIOUS
        <3>1. Precision + 0 = Precision /\ PowerOfTwo(Precision) \in Nat
            BY <1>1, PowerFacts
        <3> QED BY <1>4, <2>3, <3>1
    <2>5. e - 1 \in Nat /\ ~(e <= e - 1) /\ Precision + (e - 1) = Precision + e - 1
        BY <1>1, <2>3, <2>4
    <2>6. ~(n < PowerOfTwo(Precision + e - 1))
        <3>1. e - 1 \notin S
            <4> HIDE DEF S
            <4> QED BY <2>2, <2>5
        <3> QED BY <2>5, <3>1
    <2>7. PowerOfTwo(Precision + e - 1) \in Nat /\ PowerOfTwo(Precision + e) \in Nat
        BY <1>1, <2>3, <2>5, PowerFacts
    <2> HIDE DEF S
    <2>8. e \in Shifts
        BY <2>3, <2>4, <2>6, <2>7
    <2>9. shift \in Shifts
        BY <2>8
    <2> HIDE DEF shift
    <2>10. Precision + shift \in Nat /\ Precision + shift - 1 \in Nat
        BY <1>1, <2>9
    <2>11. PowerOfTwo(Precision + shift - 1) \in Nat /\ PowerOfTwo(Precision + shift) \in Nat
        BY <2>10, PowerFacts
    <2> QED BY <2>9, <2>11
<1> DEFINE significand == PowerOfTwo(Precision - 1)
<1> HIDE DEF shift
<1>7. unit \in Nat \ {0} /\ significand \in Nat \ {0} /\ 1 * unit = unit
    BY <1>1, <1>6, PowerFacts
<1>8. significand * unit = PowerOfTwo(Precision + shift - 1)
    <2>1. shift \in Nat /\ (Precision - 1) + shift = Precision + shift - 1
        BY <1>1, <1>6
    <2> QED BY <1>1, <2>1, PowerAdds
<1>9. limit <= significand * unit
    <2>1. Precision + shift > Width - 1
        <3> SUFFICES ASSUME Precision + shift <= Width - 1 PROVE FALSE
            BY <1>1, <1>6
        <3>1. PowerOfTwo(Precision + shift) <= limit
            BY <1>1, <1>6, PowerInOrder
        <3>2. PowerOfTwo(Precision + shift) \in Nat
            BY <1>1, <1>6, PowerFacts
        <3> HIDE DEF limit
        <3> QED BY <1>2, <1>3, <1>6, <3>1, <3>2
    <2>2. Precision + shift - 1 \in Nat /\ Width - 1 <= Precision + shift - 1
        BY <1>1, <1>6, <2>1
    <2>3. limit <= PowerOfTwo(Precision + shift - 1)
        BY <1>1, <2>2, PowerInOrder
    <2> QED BY <1>8, <2>3
<1>10. /\ float \in Nat /\ float >= significand
       /\ float = significand => 2 * (n - significand * unit) <= unit
    <2> HIDE DEF unit, significand
    <2>1. significand * unit <= n
        BY <1>6, <1>8
    <2> QED BY <1>7, <2>1, HalfEvenFacts
<1>11. limit = significand * (2 * half)
    <2>1. PowerOfTwo(Width - Precision) = 2 * half
        BY <1>1, PowerFacts
    <2>2. limit = significand * PowerOfTwo(Width - Precision)
        BY <1>1, PowerAdds
    <2> QED BY <2>1, <2>2
<1> HIDE DEF limit, unit, float, half, significand
<1>12. float * unit \in Nat /\ float * unit >= significand * unit
    <2>1. \A a, b, u \in Nat : a >= b => a * u \in Nat /\ a * u >= b * u
        OBVIOUS
    <2> QED BY <1>7, <1>10, <2>1
<1>13. significand * unit \in Nat
    BY <1>7
<1>14. float * unit = limit => n - limit <= half
    <2> SUFFICES ASSUME float * unit = limit PROVE n - limit <= half
        OBVIOUS
    <2>1. significand * unit = limit
        BY <1>2, <1>9, <1>12, <1>13
    <2>2. \A a, b \in Nat, u \in Nat \ {0} : a * u = b * u => a = b
        OBVIOUS
    <2>3. float = significand
        BY <1>7, <1>10, <2>1, <2>2
    <2>4. \A a, b \in Nat, u \in Nat \ {0} : u * a = u * b => a = b
        OBVIOUS
    <2>5. unit = 2 * half
        <3>1. 2 * half \in Nat
            BY <1>2
        <3> QED BY <1>7, <1>11, <2>1, <2>4, <3>1
    <2> QED BY <1>2, <1>10, <2>1, <2>3, <2>5
<1>15. NearestFloat(n, 1) >= limit
    BY <1>2, <1>5, <1>9, <1>12, <1>13
<1> QED BY <1>2, <1>5, <1>12, <1>14, <1>15 DEF half

Radixes == {2, 8, 10, 16}

\* What a digit is, and is not.
LEMMA DigitFacts ==
    ASSUME NEW c, NEW radix \in Radixes, IsDigit(c, radix)
    PROVE  /\ DigitValue(c) \in Nat
           /\ c \notin {Mark, Plus, Minus, Point, Hex, Octal}
           /\ radix <= 10 => c \notin {Binary, Exponent} /\ IsDigit(c, 10)
<1>1. PICK i \in 1..radix : Alphabet[i] = c
    BY DEF IsDigit
<1>2. i \in 1..16 /\ DOMAIN Alphabet = 1..16
    BY DEF Radixes, Alphabet
<1>3. DigitValue(c) \in Nat
    <2> DEFINE k == CHOOSE j \in DOMAIN Alphabet : Alphabet[j] = c
    <2>1. k \in 1..16
        BY <1>1, <1>2
    <2>2. DigitValue(c) = k - 1
        BY <1>1, <1>2 DEF DigitValue, DigitValues
    <2> HIDE DEF k
    <2> QED BY <2>1, <2>2
<1>4. c \in {"0", "1", "2", "3", "4", "5", "6", "7", "8", "9", "a", "b", "c", "d", "e", "f"}
      /\ (radix <= 10 => c \in {"0", "1", "2", "3", "4", "5", "6", "7", "8", "9"})
    BY <1>1, <1>2 DEF Radixes, Alphabet
<1>5. radix <= 10 => IsDigit(c, 10)
    BY <1>1 DEF IsDigit, Radixes
<1>6. c \notin {Mark, Plus, Minus, Point, Hex, Octal}
      /\ (radix <= 10 => c \notin {Binary, Exponent})
    BY <1>4 DEF Mark, Plus, Minus, Point, Hex, Octal, Binary, Exponent
<1> QED BY <1>3, <1>5, <1>6

\* What every base has for a digit.
LEMMA NaughtIsDigit ==
    \A radix \in Radixes : IsDigit(Naught, radix)
BY DEF IsDigit, Naught, Alphabet, Radixes

\* The value of digits, as the function that defines it.
LEMMA ValueExists ==
    ASSUME NEW digits \in Seq(Chars), NEW radix \in Radixes, AreDigits(digits, radix)
    PROVE  \E f \in [0..Len(digits) -> Nat] :
               /\ ValueOf(digits, radix) = f[Len(digits)]
               /\ f[0] = 0
               /\ \A i \in 1..Len(digits) : f[i] = f[i - 1] * radix + DigitValue(digits[i])
<1> DEFINE n == Len(digits)
           d(i) == DigitValue(digits[i])
           Rec(f) == f = [i \in 0..n |-> IF i = 0 THEN 0 ELSE f[i - 1] * radix + d(i)]
           step == [p \in (1..n) \X Nat |-> p[2] * radix + d(p[1])]
           f == CHOOSE f : Rec(f)
<1>1. n \in Nat /\ radix \in Nat /\ \A i \in 1..n : d(i) \in Nat
    <2>1. n \in Nat /\ radix \in Nat
        BY DEF Radixes
    <2>2. \A i \in 1..n : IsDigit(digits[i], radix)
        BY DEF AreDigits
    <2> QED BY <2>1, <2>2, DigitFacts
<1> HIDE DEF d
<1>2. ValueOf(digits, radix) = f[n]
    BY DEF ValueOf, d
<1> HIDE DEF n
<1>3. \A v \in Nat, i \in 1..n : v * radix + d(i) \in Nat
    <2> TAKE v \in Nat, i \in 1..n
    <2>1. v * radix \in Nat
        BY <1>1
    <2> QED BY <1>1, <2>1
<1>4. \E e : Rec(e)
    <2> DEFINE V == Nat
    <2>1. 0 \in V /\ step \in [(1..n) \X V -> V]
        BY <1>3
    <2>2. PICK e : IsRecursion(e, n, V, 0, step)
        <3> HIDE DEF step, V
        <3> QED BY <1>1, <2>1, RecursionExists
    <2>3. e \in [0..n -> Nat] /\ e[0] = 0 /\ \A i \in 1..n : e[i] = step[<<i, e[i - 1]>>]
        BY <2>2 DEF IsRecursion
    <2>4. \A i \in 1..n : e[i] = e[i - 1] * radix + d(i)
        <3> TAKE i \in 1..n
        <3>1. e[i - 1] \in Nat
            BY <1>1, <2>3
        <3> QED BY <2>3, <3>1
    <2>5. Rec(e)
        BY <2>3, <2>4
    <2> QED BY <2>5
<1>5. Rec(f)
    <2> HIDE DEF Rec
    <2> QED BY <1>4
<1> HIDE DEF f
<1>6. f[0] = 0 /\ \A i \in 1..n : f[i] = f[i - 1] * radix + d(i)
    BY <1>1, <1>5
<1> DEFINE G == {i \in 0..n : f[i] \in Nat}
<1>7. 0..n \subseteq G
    <2>1. 0 \in G
        BY <1>1, <1>6
    <2>2. ASSUME NEW i \in 1..n, i - 1 \in G PROVE i \in G
        <3>1. f[i - 1] \in Nat /\ f[i] = f[i - 1] * radix + d(i)
            BY <1>6, <2>2
        <3>2. f[i] \in Nat
            BY <1>3, <3>1
        <3> QED BY <1>1, <3>2
    <2> HIDE DEF G
    <2> QED BY <1>1, <2>1, <2>2, Upward
<1>8. f \in [0..n -> Nat]
    BY <1>5, <1>7
<1> QED BY <1>2, <1>6, <1>8 DEF n, d

LEMMA ValueType ==
    ASSUME NEW digits \in Seq(Chars), NEW radix \in Radixes, AreDigits(digits, radix)
    PROVE  ValueOf(digits, radix) \in Nat
<1>1. Len(digits) \in 0..Len(digits)
    OBVIOUS
<1> QED BY <1>1, ValueExists

LEMMA ValueOfNone == ValueOf(<<>>, 10) = 0
<1>1. <<>> \in Seq(Chars) /\ AreDigits(<<>>, 10) /\ 10 \in Radixes /\ Len(<<>>) = 0
    BY DEF AreDigits, Radixes
<1> QED BY <1>1, ValueExists

\* Read as a decimal, an octal number is no smaller.
LEMMA OctalIsLess ==
    ASSUME NEW lead \in {0, 1}, NEW text \in Seq(Chars), NEW digits \in Seq(Chars),
           Len(text) = lead + Len(digits),
           \A i \in 1..Len(digits) : text[lead + i] = digits[i],
           AreDigits(text, 10), AreDigits(digits, 8)
    PROVE  ValueOf(digits, 8) <= ValueOf(text, 10)
<1> DEFINE n == Len(digits)
           d(i) == DigitValue(digits[i])
<1>1. PICK f \in [0..n -> Nat] :
          /\ ValueOf(digits, 8) = f[n]
          /\ f[0] = 0
          /\ \A i \in 1..n : f[i] = f[i - 1] * 8 + d(i)
    BY ValueExists DEF Radixes
<1>2. PICK g \in [0..(lead + n) -> Nat] :
          /\ ValueOf(text, 10) = g[lead + n]
          /\ g[0] = 0
          /\ \A i \in 1..(lead + n) : g[i] = g[i - 1] * 10 + DigitValue(text[i])
    BY ValueExists DEF Radixes
<1>3. n \in Nat /\ \A i \in 1..n : d(i) \in Nat
    <2>1. n \in Nat /\ 8 \in Radixes
        BY DEF Radixes
    <2>2. \A i \in 1..n : IsDigit(digits[i], 8)
        BY DEF AreDigits
    <2> QED BY <2>1, <2>2, DigitFacts
<1>4. \A i \in 1..n : g[lead + i] = g[lead + (i - 1)] * 10 + d(i)
    <2> TAKE i \in 1..n
    <2>1. lead + i \in 1..(lead + n) /\ (lead + i) - 1 = lead + (i - 1)
        BY <1>3
    <2>2. text[lead + i] = digits[i]
        OBVIOUS
    <2> QED BY <1>2, <2>1, <2>2
<1> HIDE DEF n, d
<1> DEFINE G == {i \in 0..n : f[i] <= g[lead + i]}
<1>5. 0..n \subseteq G
    <2>1. 0 \in G
        <3>1. lead + 0 \in 0..(lead + n)
            BY <1>3
        <3>2. g[lead + 0] \in Nat
            BY <3>1
        <3> QED BY <1>1, <1>3, <3>2
    <2>2. ASSUME NEW i \in 1..n, i - 1 \in G PROVE i \in G
        <3>1. i - 1 \in 0..n /\ lead + (i - 1) \in 0..(lead + n)
            BY <1>3
        <3>2. PICK a \in Nat : a = f[i - 1]
            BY <3>1
        <3>3. PICK b \in Nat : b = g[lead + (i - 1)]
            BY <3>1
        <3>4. a <= b
            BY <2>2, <3>2, <3>3
        <3>5. f[i] = a * 8 + d(i) /\ g[lead + i] = b * 10 + d(i) /\ d(i) \in Nat
            BY <1>1, <1>3, <1>4, <3>2, <3>3
        <3> QED BY <3>4, <3>5
    <2> HIDE DEF G
    <2> QED BY <1>3, <2>1, <2>2, Upward
<1>6. n \in G
    BY <1>3, <1>5
<1> QED BY <1>1, <1>2, <1>6

---------------------------------------------------------------------------
(* The texts. *)

\* What Plain starts from, and what it makes of one character.
EmptyText == <<>>
WithNext(part, c) == IF c = Mark THEN part ELSE Append(part, c)

\* Sequences, as the lemmas below use them.
LEMMA SeqEqual ==
    ASSUME NEW s \in Seq(Chars), NEW t \in Seq(Chars), Len(s) = Len(t),
           \A i \in 1..Len(s) : s[i] = t[i]
    PROVE  s = t
OBVIOUS

LEMMA ConcatFacts ==
    ASSUME NEW s \in Seq(Chars), NEW t \in Seq(Chars)
    PROVE  /\ s \o t \in Seq(Chars) /\ Len(s \o t) = Len(s) + Len(t)
           /\ \A i \in 1..Len(s) : (s \o t)[i] = s[i]
           /\ \A j \in 1..Len(t) : (s \o t)[Len(s) + j] = t[j]
OBVIOUS

LEMMA TextFacts ==
    ASSUME NEW text \in Seq(Chars)
    PROVE  /\ \A i \in 1..Len(text) :
                 Append(SubSeq(text, 1, i - 1), text[i]) = SubSeq(text, 1, i)
           /\ SubSeq(text, 1, 0) = EmptyText /\ SubSeq(text, 1, Len(text)) = text
           /\ text \o EmptyText = text /\ EmptyText \o text = text
           /\ \A more \in Seq(Chars), c \in Chars :
                 text \o Append(more, c) = Append(text \o more, c)
<1>1. ASSUME NEW i \in 1..Len(text)
      PROVE  Append(SubSeq(text, 1, i - 1), text[i]) = SubSeq(text, 1, i)
    OBVIOUS
<1>2. SubSeq(text, 1, 0) = <<>> /\ SubSeq(text, 1, Len(text)) = text
    OBVIOUS
<1>3. text \o <<>> = text /\ <<>> \o text = text
    OBVIOUS
<1>4. ASSUME NEW more \in Seq(Chars), NEW c \in Chars
      PROVE  text \o Append(more, c) = Append(text \o more, c)
    OBVIOUS
<1> QED BY <1>1, <1>2, <1>3, <1>4 DEF EmptyText

LEMMA AppendLast ==
    ASSUME NEW text \in Seq(Chars), NEW more \in Seq(Chars), NEW c \in Chars
    PROVE  text \o Append(more, c) = Append(text \o more, c)
BY TextFacts

LEMMA WithNextFacts ==
    ASSUME NEW part \in Seq(Chars), NEW c \in Chars
    PROVE  /\ WithNext(part, c) \in Seq(Chars)
           /\ c = Mark => WithNext(part, c) = part
           /\ c # Mark => WithNext(part, c) = Append(part, c)
BY DEF WithNext

LEMMA EmptyTextType == EmptyText \in Seq(Chars) /\ Len(EmptyText) = 0
BY DEF EmptyText

\* The text without underscores, as the function that defines it.
LEMMA PlainExists ==
    ASSUME NEW text \in Seq(Chars)
    PROVE  \E f \in [0..Len(text) -> Seq(Chars)] :
               /\ Plain(text) = f[Len(text)]
               /\ f[0] = EmptyText
               /\ \A i \in 1..Len(text) : f[i] = WithNext(f[i - 1], text[i])
<1> DEFINE n == Len(text)
           V == Seq(Chars)
           Rec(f) == f = [i \in 0..n |-> IF i = 0 THEN EmptyText ELSE WithNext(f[i - 1], text[i])]
           step == [p \in (1..n) \X V |-> WithNext(p[2], text[p[1]])]
           f == CHOOSE f : Rec(f)
<1>1. n \in Nat /\ \A i \in 1..n : text[i] \in Chars
    OBVIOUS
<1>2. Plain(text) = f[n]
    BY DEF Plain, Mark, WithNext, EmptyText
<1>3. \A v \in V, i \in 1..n : WithNext(v, text[i]) \in V
    BY <1>1, WithNextFacts
<1>4. EmptyText \in V
    BY EmptyTextType
<1> HIDE DEF n, V
<1>5. \E e : Rec(e)
    <2>1. step \in [(1..n) \X V -> V]
        BY <1>3
    <2>2. PICK e : IsRecursion(e, n, V, EmptyText, step)
        <3> HIDE DEF step
        <3> QED BY <1>1, <1>4, <2>1, RecursionExists
    <2>3. e \in [0..n -> V] /\ e[0] = EmptyText /\ \A i \in 1..n : e[i] = step[<<i, e[i - 1]>>]
        BY <2>2 DEF IsRecursion
    <2>4. \A i \in 1..n : e[i] = WithNext(e[i - 1], text[i])
        <3> TAKE i \in 1..n
        <3>1. e[i - 1] \in V
            BY <1>1, <2>3
        <3> QED BY <2>3, <3>1
    <2>5. Rec(e)
        BY <1>1, <2>3, <2>4
    <2> QED BY <2>5
<1>6. Rec(f)
    <2> HIDE DEF Rec
    <2> QED BY <1>5
<1> HIDE DEF f
<1>7. f[0] = EmptyText /\ \A i \in 1..n : f[i] = WithNext(f[i - 1], text[i])
    BY <1>1, <1>6
<1> DEFINE G == {i \in 0..n : f[i] \in V}
<1>8. 0..n \subseteq G
    <2>1. 0 \in G
        BY <1>1, <1>4, <1>7
    <2>2. ASSUME NEW i \in 1..n, i - 1 \in G PROVE i \in G
        BY <1>1, <1>3, <1>7, <2>2
    <2> HIDE DEF G
    <2> QED BY <1>1, <2>1, <2>2, Upward
<1>9. f \in [0..n -> V]
    BY <1>6, <1>8
<1> QED BY <1>2, <1>7, <1>9 DEF n, V

\* What is left of a text after its first k characters.
LEMMA FromFacts ==
    ASSUME NEW text \in Seq(Chars), NEW k \in 0..Len(text)
    PROVE  /\ From(text, k + 1) \in Seq(Chars)
           /\ Len(From(text, k + 1)) = Len(text) - k
           /\ \A j \in 1..(Len(text) - k) : From(text, k + 1)[j] = text[k + j]
           /\ text = SubSeq(text, 1, k) \o From(text, k + 1)
<1> DEFINE rest == From(text, k + 1)
           head == SubSeq(text, 1, k)
<1>1. rest \in Seq(Chars) /\ Len(rest) = Len(text) - k
      /\ \A j \in 1..(Len(text) - k) : rest[j] = text[k + j]
    BY DEF From
<1>2. head \in Seq(Chars) /\ Len(head) = k /\ \A i \in 1..k : head[i] = text[i]
    OBVIOUS
<1> HIDE DEF rest, head
<1>3. head \o rest \in Seq(Chars) /\ Len(head \o rest) = Len(text)
    <2>1. k \in Nat /\ Len(text) \in Nat
        OBVIOUS
    <2>2. head \o rest \in Seq(Chars) /\ Len(head \o rest) = Len(head) + Len(rest)
        BY <1>1, <1>2, ConcatFacts
    <2> QED BY <1>1, <1>2, <2>1, <2>2
<1>4. \A i \in 1..Len(text) : (head \o rest)[i] = text[i]
    <2> TAKE i \in 1..Len(text)
    <2>1. CASE i <= k
        <3>1. i \in 1..k
            BY <2>1
        <3>2. (head \o rest)[i] = head[i]
            BY <1>1, <1>2, <3>1, ConcatFacts
        <3> QED BY <1>2, <3>1, <3>2
    <2>2. CASE i > k
        <3> DEFINE j == i - k
        <3>1. j \in 1..(Len(text) - k) /\ k + j = i
            BY <2>2
        <3> HIDE DEF j
        <3>2. (head \o rest)[k + j] = rest[j]
            BY <1>1, <1>2, <3>1, ConcatFacts
        <3>3. (head \o rest)[k + j] = text[k + j]
            BY <1>1, <3>1, <3>2
        <3> QED BY <3>1, <3>3
    <2>3. i <= k \/ i > k
        OBVIOUS
    <2> QED BY <2>1, <2>2, <2>3
<1>5. head \o rest = text
    BY <1>3, <1>4, SeqEqual
<1> QED BY <1>1, <1>5 DEF rest, head

\* A part without underscores stays as it is.
LEMMA PlainSplit ==
    ASSUME NEW text \in Seq(Chars), NEW k \in 0..Len(text),
           \A i \in 1..k : text[i] # Mark
    PROVE  /\ Plain(text) = SubSeq(text, 1, k) \o Plain(From(text, k + 1))
           /\ Plain(From(text, k + 1)) \in Seq(Chars)
<1> DEFINE n == Len(text)
           rest == From(text, k + 1)
           head == SubSeq(text, 1, k)
<1>1. n \in Nat /\ rest \in Seq(Chars) /\ Len(rest) = n - k /\ head \in Seq(Chars)
      /\ \A j \in 1..(n - k) : rest[j] = text[k + j]
    <2>1. rest \in Seq(Chars) /\ Len(rest) = n - k
          /\ \A j \in 1..(n - k) : rest[j] = text[k + j]
        BY FromFacts
    <2> HIDE DEF rest
    <2>2. n \in Nat /\ head \in Seq(Chars)
        OBVIOUS
    <2> QED BY <2>1, <2>2
<1>2. PICK f \in [0..n -> Seq(Chars)] :
          /\ Plain(text) = f[n]
          /\ f[0] = EmptyText
          /\ \A i \in 1..n : f[i] = WithNext(f[i - 1], text[i])
    BY PlainExists
<1>a. \E g \in [0..Len(rest) -> Seq(Chars)] :
          /\ Plain(rest) = g[Len(rest)]
          /\ g[0] = EmptyText
          /\ \A j \in 1..Len(rest) : g[j] = WithNext(g[j - 1], rest[j])
    <2> HIDE DEF rest
    <2> QED BY <1>1, PlainExists, Zenon
<1>3. PICK g \in [0..(n - k) -> Seq(Chars)] :
          /\ Plain(rest) = g[n - k]
          /\ g[0] = EmptyText
          /\ \A j \in 1..(n - k) : g[j] = WithNext(g[j - 1], rest[j])
    <2> HIDE DEF rest, n
    <2> QED BY <1>1, <1>a
<1> HIDE DEF rest
<1> DEFINE F == {i \in 0..k : f[i] = SubSeq(text, 1, i)}
<1>4. 0..k \subseteq F
    <2>1. 0 \in F
        BY <1>2, TextFacts
    <2>2. ASSUME NEW i \in 1..k, i - 1 \in F PROVE i \in F
        <3>1. i \in 1..n /\ text[i] # Mark /\ text[i] \in Chars /\ f[i - 1] = SubSeq(text, 1, i - 1)
            BY <2>2, <1>1
        <3>2. SubSeq(text, 1, i - 1) \in Seq(Chars)
            BY <3>1
        <3>3. f[i] = Append(SubSeq(text, 1, i - 1), text[i])
            BY <1>2, <3>1, <3>2, WithNextFacts
        <3>4. f[i] = SubSeq(text, 1, i)
            BY <3>1, <3>3, TextFacts
        <3> QED BY <3>4
    <2>3. k \in Nat
        OBVIOUS
    <2> HIDE DEF F
    <2> QED BY <2>1, <2>2, <2>3, Upward
<1>5. f[k] = head
    BY <1>4
<1> HIDE DEF head
<1>6. n - k \in Nat /\ k \in Nat
    BY <1>1
<1> DEFINE G == {j \in 0..(n - k) : f[k + j] = head \o g[j]}
<1>7. 0..(n - k) \subseteq G
    <2>1. 0 \in G
        <3>1. k + 0 = k /\ 0 \in 0..(n - k)
            BY <1>6
        <3>2. head \o EmptyText = head
            BY <1>1, TextFacts
        <3>3. f[k + 0] = head \o g[0]
            BY <1>3, <1>5, <3>1, <3>2
        <3> QED BY <3>1, <3>3
    <2>2. ASSUME NEW j \in 1..(n - k), j - 1 \in G PROVE j \in G
        <3>1. k + j \in 1..n /\ (k + j) - 1 = k + (j - 1) /\ j - 1 \in 0..(n - k) /\ j \in 0..(n - k)
            BY <1>1, <1>6
        <3>2. f[k + (j - 1)] = head \o g[j - 1] /\ g[j - 1] \in Seq(Chars)
            BY <2>2, <3>1
        <3>3. rest[j] = text[k + j] /\ text[k + j] \in Chars
            BY <1>1, <3>1
        <3>4. head \o g[j - 1] \in Seq(Chars)
            BY <1>1, <3>2
        <3>5. f[k + j] = WithNext(head \o g[j - 1], text[k + j]) /\ g[j] = WithNext(g[j - 1], text[k + j])
            BY <1>2, <1>3, <3>1, <3>2, <3>3
        <3>6. WithNext(head \o g[j - 1], text[k + j]) = head \o WithNext(g[j - 1], text[k + j])
            <4>1. CASE text[k + j] = Mark
                BY <3>2, <3>3, <3>4, <4>1, WithNextFacts
            <4>2. CASE text[k + j] # Mark
                <5>1. WithNext(head \o g[j - 1], text[k + j]) = Append(head \o g[j - 1], text[k + j])
                      /\ WithNext(g[j - 1], text[k + j]) = Append(g[j - 1], text[k + j])
                    BY <3>2, <3>3, <3>4, <4>2, WithNextFacts
                <5>2. head \o Append(g[j - 1], text[k + j]) = Append(head \o g[j - 1], text[k + j])
                    BY <1>1, <3>2, <3>3, AppendLast, Zenon
                <5> QED BY <5>1, <5>2
            <4> QED BY <4>1, <4>2
        <3>7. f[k + j] = head \o g[j]
            BY <3>5, <3>6
        <3> QED BY <3>1, <3>7
    <2> HIDE DEF G
    <2> QED BY <1>6, <2>1, <2>2, Upward
<1>8. f[k + (n - k)] = head \o g[n - k] /\ k + (n - k) = n
    <2>1. n - k \in 0..(n - k)
        BY <1>6
    <2>2. n - k \in G
        <3> HIDE DEF G, n
        <3> QED BY <1>7, <2>1
    <2>3. k + (n - k) = n
        BY <1>1, <1>6
    <2> QED BY <2>2, <2>3
<1>9. g[n - k] \in Seq(Chars)
    BY <1>6
<1>10. Plain(text) = head \o Plain(rest) /\ Plain(rest) \in Seq(Chars)
    BY <1>2, <1>3, <1>8, <1>9
<1> QED BY <1>10 DEF head, rest

LEMMA PlainType ==
    ASSUME NEW text \in Seq(Chars)
    PROVE  Plain(text) \in Seq(Chars)
<1>1. Len(text) \in 0..Len(text)
    OBVIOUS
<1> QED BY <1>1, PlainExists

LEMMA PlainOfEmpty == Plain(EmptyText) = EmptyText
BY EmptyTextType, PlainExists

\* Without underscores the whole text stays as it is.
LEMMA PlainAlready ==
    ASSUME NEW text \in Seq(Chars), \A i \in 1..Len(text) : text[i] # Mark
    PROVE  Plain(text) = text
<1>1. From(text, Len(text) + 1) = EmptyText
    BY DEF From, EmptyText
<1>2. Len(text) \in 0..Len(text)
    OBVIOUS
<1>3. Plain(text) = SubSeq(text, 1, Len(text)) \o Plain(From(text, Len(text) + 1))
    BY <1>2, PlainSplit, Zenon
<1> QED BY <1>1, <1>3, TextFacts, PlainOfEmpty

\* The rest of a text, after a first part or after a part of the rest.
LEMMA JoinFacts ==
    ASSUME NEW s \in Seq(Chars), NEW t \in Seq(Chars)
    PROVE  From(s \o t, Len(s) + 1) = t
<1> DEFINE k == Len(s)
           rest == From(s \o t, k + 1)
<1>1. /\ s \o t \in Seq(Chars) /\ Len(s \o t) = k + Len(t)
      /\ \A j \in 1..Len(t) : (s \o t)[k + j] = t[j]
    BY ConcatFacts
<1>2. k \in Nat /\ Len(t) \in Nat
    OBVIOUS
<1> HIDE DEF k
<1>3. k \in 0..Len(s \o t) /\ Len(s \o t) - k = Len(t)
    BY <1>1, <1>2
<1>4. rest \in Seq(Chars) /\ Len(rest) = Len(t) /\ \A j \in 1..Len(t) : rest[j] = (s \o t)[k + j]
    BY <1>1, <1>3, FromFacts
<1> HIDE DEF rest
<1>5. \A j \in 1..Len(t) : rest[j] = t[j]
    BY <1>1, <1>4
<1>6. rest = t
    BY <1>4, <1>5, SeqEqual
<1> QED BY <1>6 DEF rest, k

LEMMA FromFrom ==
    ASSUME NEW text \in Seq(Chars), NEW k \in 0..Len(text), NEW l \in 0..(Len(text) - k)
    PROVE  From(From(text, k + 1), l + 1) = From(text, k + l + 1)
<1> DEFINE rest == From(text, k + 1)
           last == From(rest, l + 1)
           whole == From(text, (k + l) + 1)
<1>1. Len(text) \in Nat /\ k \in Nat /\ l \in Nat /\ k + l \in 0..Len(text)
    OBVIOUS
<1>2. rest \in Seq(Chars) /\ Len(rest) = Len(text) - k
      /\ \A j \in 1..(Len(text) - k) : rest[j] = text[k + j]
    BY FromFacts
<1>3. whole \in Seq(Chars) /\ Len(whole) = Len(text) - (k + l)
      /\ \A j \in 1..(Len(text) - (k + l)) : whole[j] = text[(k + l) + j]
    BY <1>1, FromFacts
<1> HIDE DEF rest, whole
<1>4. last \in Seq(Chars) /\ Len(last) = Len(rest) - l
      /\ \A j \in 1..(Len(rest) - l) : last[j] = rest[l + j]
    BY <1>1, <1>2, FromFacts
<1> HIDE DEF last
<1>5. Len(last) = Len(whole)
    BY <1>1, <1>2, <1>3, <1>4
<1>6. ASSUME NEW j \in 1..Len(last) PROVE last[j] = whole[j]
    <2>1. j \in 1..(Len(rest) - l) /\ l + j \in 1..(Len(text) - k)
          /\ j \in 1..(Len(text) - (k + l)) /\ k + (l + j) = (k + l) + j
        BY <1>1, <1>2, <1>4
    <2>2. last[j] = rest[l + j] /\ rest[l + j] = text[k + (l + j)] /\ whole[j] = text[(k + l) + j]
        BY <1>2, <1>3, <1>4, <2>1
    <2> QED BY <2>1, <2>2
<1>7. last = whole
    BY <1>3, <1>4, <1>5, <1>6, SeqEqual
<1> QED BY <1>7 DEF last, whole, rest

---------------------------------------------------------------------------
(* The sign, and the base. *)

LEMMA SignFacts ==
    ASSUME NEW text \in Seq(Chars), text # EmptyText
    PROVE  /\ IsSigned(text) <=> text[1] \in {Plus, Minus}
           /\ IsNegative(text) <=> text[1] = Minus
           /\ IsSigned(text) => Unsigned(text) = From(text, 2)
           /\ ~IsSigned(text) => Unsigned(text) = text
<1>1. IsSigned(text) <=> Head(text) \in {Plus, Minus}
    BY DEF IsSigned, EmptyText, Plus, Minus
<1>2. IsNegative(text) <=> Head(text) = Minus
    BY DEF IsNegative, EmptyText, Minus
<1>3. Head(text) = text[1] /\ Tail(text) = From(text, 2)
    BY DEF From, EmptyText
<1> QED BY <1>1, <1>2, <1>3 DEF Unsigned

LEMMA UnsignedOfEmpty == Unsigned(EmptyText) = EmptyText /\ ~IsNegative(EmptyText)
BY DEF Unsigned, IsSigned, IsNegative, EmptyText

LEMMA FirstAlone ==
    ASSUME NEW text \in Seq(Chars), Len(text) >= 1
    PROVE  SubSeq(text, 1, 1) = <<text[1]>>
<1> DEFINE s == SubSeq(text, 1, 1)
           t == <<text[1]>>
<1>1. text[1] \in Chars
    OBVIOUS
<1>2. t \in Seq(Chars) /\ Len(t) = 1 /\ t[1] = text[1]
    BY <1>1
<1>3. s \in Seq(Chars) /\ Len(s) = 1 /\ s[1] = text[1]
    OBVIOUS
<1> HIDE DEF s, t
<1>4. \A i \in 1..Len(s) : s[i] = t[i]
    <2>1. \A i \in 1..1 : i = 1
        OBVIOUS
    <2> QED BY <1>2, <1>3, <2>1
<1>5. s = t
    BY <1>2, <1>3, <1>4, SeqEqual
<1> QED BY <1>5 DEF s, t

LEMMA StartsFacts ==
    ASSUME NEW text \in Seq(Chars), NEW a, NEW b
    PROVE  StartsWith(text, <<a, b>>) <=> Len(text) >= 2 /\ text[1] = a /\ text[2] = b
<1>1. Len(<<a, b>>) = 2
    OBVIOUS
<1>2. ASSUME Len(text) >= 2 PROVE SubSeq(text, 1, 2) = <<text[1], text[2]>>
    <2> DEFINE s == SubSeq(text, 1, 2)
               t == <<text[1], text[2]>>
    <2>1. text[1] \in Chars /\ text[2] \in Chars
        BY <1>2
    <2>2. t \in Seq(Chars) /\ Len(t) = 2 /\ t[1] = text[1] /\ t[2] = text[2]
        BY <2>1
    <2>3. s \in Seq(Chars) /\ Len(s) = 2 /\ s[1] = text[1] /\ s[2] = text[2]
        BY <1>2
    <2> HIDE DEF s, t
    <2>4. \A i \in 1..Len(s) : s[i] = t[i]
        <3>1. \A i \in 1..2 : i = 1 \/ i = 2
            OBVIOUS
        <3> QED BY <2>2, <2>3, <3>1
    <2>5. s = t
        BY <2>2, <2>3, <2>4, SeqEqual
    <2> QED BY <2>5 DEF s, t
<1>3. <<text[1], text[2]>> = <<a, b>> <=> text[1] = a /\ text[2] = b
    OBVIOUS
<1> QED BY <1>1, <1>2, <1>3 DEF StartsWith

\* How a text without a sign is read: the radix, and how many characters come
\* before the digits.
Based(unsigned, radix, before) ==
    \/ /\ before = 2 /\ Len(unsigned) >= 2 /\ unsigned[1] = Naught
       /\ \/ unsigned[2] = Hex /\ radix = 16
          \/ unsigned[2] = Octal /\ radix = 8
          \/ unsigned[2] = Binary /\ radix = 2
    \/ /\ before = 1 /\ Len(unsigned) >= 2 /\ unsigned[1] = Naught
       /\ unsigned[2] \notin {Hex, Octal, Binary} /\ radix = 8
    \/ before = 0 /\ (Len(unsigned) >= 2 => unsigned[1] # Naught) /\ radix = 10

LEMMA BaseExists ==
    ASSUME NEW unsigned \in Seq(Chars)
    PROVE  \E radix \in Radixes, before \in 0..Len(unsigned) : Based(unsigned, radix, before)
<1>1. Len(unsigned) \in Nat
    OBVIOUS
<1>2. {2, 8, 10, 16} \subseteq Radixes
    BY DEF Radixes
<1> QED BY <1>1, <1>2 DEF Based

LEMMA BaseType ==
    ASSUME NEW unsigned \in Seq(Chars), NEW radix, NEW before, Based(unsigned, radix, before)
    PROVE  radix \in Radixes /\ before \in 0..Len(unsigned) /\ before \in 0..2
<1>1. Len(unsigned) \in Nat
    OBVIOUS
<1> QED BY <1>1 DEF Based, Radixes

\* Both parsers read it so.
LEMMA BaseFacts ==
    ASSUME NEW unsigned \in Seq(Chars), NEW radix, NEW before, Based(unsigned, radix, before)
    PROVE  GoBase(unsigned).radix = radix /\ GoBase(unsigned).first = before + 1
<1>1. /\ StartsWith(unsigned, <<"0", "x">>) <=>
            Len(unsigned) >= 2 /\ unsigned[1] = Naught /\ unsigned[2] = Hex
      /\ StartsWith(unsigned, <<"0", "o">>) <=>
            Len(unsigned) >= 2 /\ unsigned[1] = Naught /\ unsigned[2] = Octal
      /\ StartsWith(unsigned, <<"0", "b">>) <=>
            Len(unsigned) >= 2 /\ unsigned[1] = Naught /\ unsigned[2] = Binary
    BY StartsFacts DEF Naught, Hex, Octal, Binary
<1> DEFINE X == StartsWith(unsigned, <<"0", "x">>)
           O == StartsWith(unsigned, <<"0", "o">>)
           B == StartsWith(unsigned, <<"0", "b">>)
           long == Len(unsigned) > 1 /\ Head(unsigned) = "0"
<1>2. long <=> Len(unsigned) >= 2 /\ unsigned[1] = Naught
    <2>1. Len(unsigned) > 1 => Head(unsigned) = unsigned[1]
        OBVIOUS
    <2>2. Len(unsigned) > 1 <=> Len(unsigned) >= 2
        OBVIOUS
    <2> QED BY <2>1, <2>2 DEF Naught
<1>3. GoBase(unsigned) = CASE X -> [radix |-> 16, first |-> 3]
                           [] O -> [radix |-> 8, first |-> 3]
                           [] B -> [radix |-> 2, first |-> 3]
                           [] OTHER -> IF long THEN [radix |-> 8, first |-> 2]
                                               ELSE [radix |-> 10, first |-> 1]
    BY DEF GoBase
<1> HIDE DEF X, O, B, long
<1>4. CASE X
    <2>1. ~O /\ ~B
        BY <1>1, <1>4, CharFacts DEF X, O, B
    <2>2. GoBase(unsigned) = [radix |-> 16, first |-> 3]
        BY <1>3, <1>4, <2>1
    <2>3. radix = 16 /\ before = 2
        BY <1>1, <1>4, CharFacts DEF X, Based
    <2> QED BY <2>2, <2>3
<1>5. CASE O
    <2>1. ~X /\ ~B
        BY <1>1, <1>5, CharFacts DEF X, O, B
    <2>2. GoBase(unsigned) = [radix |-> 8, first |-> 3]
        BY <1>3, <1>5, <2>1
    <2>3. radix = 8 /\ before = 2
        BY <1>1, <1>5, CharFacts DEF O, Based
    <2> QED BY <2>2, <2>3
<1>6. CASE B
    <2>1. ~X /\ ~O
        BY <1>1, <1>6, CharFacts DEF X, O, B
    <2>2. GoBase(unsigned) = [radix |-> 2, first |-> 3]
        BY <1>3, <1>6, <2>1
    <2>3. radix = 2 /\ before = 2
        BY <1>1, <1>6, CharFacts DEF B, Based
    <2> QED BY <2>2, <2>3
<1>7. CASE ~X /\ ~O /\ ~B /\ long
    <2>1. GoBase(unsigned) = [radix |-> 8, first |-> 2]
        BY <1>3, <1>7
    <2>2. radix = 8 /\ before = 1
        BY <1>1, <1>2, <1>7 DEF X, O, B, Based
    <2> QED BY <2>1, <2>2
<1>8. CASE ~X /\ ~O /\ ~B /\ ~long
    <2>1. GoBase(unsigned) = [radix |-> 10, first |-> 1]
        BY <1>3, <1>8
    <2>2. radix = 10 /\ before = 0
        BY <1>1, <1>2, <1>8 DEF X, O, B, Based
    <2> QED BY <2>1, <2>2
<1> QED BY <1>4, <1>5, <1>6, <1>7, <1>8

LEMMA UnsignedType ==
    ASSUME NEW text \in Seq(Chars)
    PROVE  Unsigned(text) \in Seq(Chars)
<1>1. CASE text = EmptyText
    BY <1>1, UnsignedOfEmpty
<1>2. CASE text # EmptyText
    <2>1. Len(text) \in Nat /\ Len(text) >= 1
        BY <1>2 DEF EmptyText
    <2>2. From(text, 2) \in Seq(Chars)
        BY <2>1 DEF From
    <2> QED BY <1>2, <2>2, SignFacts
<1> QED BY <1>1, <1>2

Signed(text, magnitude) == IF IsNegative(text) THEN -magnitude ELSE magnitude
Fitting(number) == IF IsI64(number) THEN number ELSE Invalid

LEMMA GoIntReads ==
    ASSUME NEW text \in Seq(Chars), NEW radix, NEW before,
           Based(Unsigned(text), radix, before)
    PROVE  LET digits == From(Unsigned(text), before + 1)
               magnitude == FromStrRadix(Plain(digits), radix)
           IN  ParseGoInt(text) =
                   IF UnderscoresOk(digits, before + 1 > 1) /\ magnitude # Invalid
                   THEN Fitting(Signed(text, magnitude)) ELSE Invalid
<1>1. GoBase(Unsigned(text)).radix = radix /\ GoBase(Unsigned(text)).first = before + 1
    BY UnsignedType, BaseFacts
<1> QED BY <1>1, Zenon DEF ParseGoInt, Fitting, Signed

LEMMA FileReads ==
    ASSUME NEW text \in Seq(Chars), NEW radix, NEW before,
           Based(Unsigned(text), radix, before)
    PROVE  LET magnitude == FromStrRadix(From(Unsigned(text), before + 1), radix)
           IN  ParseIntBase0(text) =
                   IF magnitude # Invalid THEN Fitting(Signed(text, magnitude)) ELSE Invalid
<1> DEFINE lower == Unsigned(text)
           X == StartsWith(lower, <<"0", "x">>)
           O == StartsWith(lower, <<"0", "o">>)
           B == StartsWith(lower, <<"0", "b">>)
           long == Len(lower) > 1 /\ Head(lower) = "0"
           magnitude ==
               CASE X -> FromStrRadix(From(lower, 3), 16)
                 [] O -> FromStrRadix(From(lower, 3), 8)
                 [] B -> FromStrRadix(From(lower, 3), 2)
                 [] OTHER -> IF long THEN FromStrRadix(From(lower, 2), 8)
                             ELSE FromStrRadix(lower, 10)
<1>1. lower \in Seq(Chars)
    BY UnsignedType
<1>2. /\ X <=> Len(lower) >= 2 /\ lower[1] = Naught /\ lower[2] = Hex
      /\ O <=> Len(lower) >= 2 /\ lower[1] = Naught /\ lower[2] = Octal
      /\ B <=> Len(lower) >= 2 /\ lower[1] = Naught /\ lower[2] = Binary
    BY <1>1, StartsFacts DEF Naught, Hex, Octal, Binary
<1>3. ParseIntBase0(text) =
          IF magnitude # Invalid THEN Fitting(Signed(text, magnitude)) ELSE Invalid
    BY Zenon DEF ParseIntBase0, Fitting, Signed
<1>4. From(lower, 1) = lower
    BY <1>1 DEF From
<1> HIDE DEF lower
<1>5. long <=> Len(lower) >= 2 /\ lower[1] = Naught
    <2>1. Len(lower) > 1 => Head(lower) = lower[1]
        BY <1>1
    <2>2. Len(lower) > 1 <=> Len(lower) >= 2
        BY <1>1
    <2> QED BY <2>1, <2>2 DEF Naught
<1>6. Based(lower, radix, before)
    BY DEF lower
<1> HIDE DEF X, O, B, long
<1>7. magnitude = FromStrRadix(From(lower, before + 1), radix)
    <2>1. CASE X
        <3>1. ~O /\ ~B
            BY <1>2, <2>1, CharFacts
        <3>2. radix = 16 /\ before = 2 /\ before + 1 = 3
            BY <1>2, <1>6, <2>1, CharFacts DEF Based
        <3> QED BY <2>1, <3>1, <3>2
    <2>2. CASE O
        <3>1. ~X /\ ~B
            BY <1>2, <2>2, CharFacts
        <3>2. radix = 8 /\ before = 2 /\ before + 1 = 3
            BY <1>2, <1>6, <2>2, CharFacts DEF Based
        <3> QED BY <2>2, <3>1, <3>2
    <2>3. CASE B
        <3>1. ~X /\ ~O
            BY <1>2, <2>3, CharFacts
        <3>2. radix = 2 /\ before = 2 /\ before + 1 = 3
            BY <1>2, <1>6, <2>3, CharFacts DEF Based
        <3> QED BY <2>3, <3>1, <3>2
    <2>4. CASE ~X /\ ~O /\ ~B /\ long
        <3>1. radix = 8 /\ before = 1 /\ before + 1 = 2
            BY <1>2, <1>5, <1>6, <2>4 DEF Based
        <3> QED BY <2>4, <3>1
    <2>5. CASE ~X /\ ~O /\ ~B /\ ~long
        <3>1. radix = 10 /\ before = 0 /\ before + 1 = 1
            BY <1>2, <1>5, <1>6, <2>5 DEF Based
        <3> QED BY <1>4, <2>5, <3>1
    <2> QED BY <2>1, <2>2, <2>3, <2>4, <2>5
<1> HIDE DEF magnitude
<1>8. ParseIntBase0(text) =
          IF FromStrRadix(From(lower, before + 1), radix) # Invalid
          THEN Fitting(Signed(text, FromStrRadix(From(lower, before + 1), radix))) ELSE Invalid
    BY <1>3, <1>7
<1> QED BY <1>8 DEF lower

---------------------------------------------------------------------------
(* The numbers. *)

LEMMA FromStrFacts ==
    ASSUME NEW digits \in Seq(Chars), NEW radix \in Radixes
    PROVE  /\ FromStrRadix(digits, radix) # Invalid =>
                 /\ digits # EmptyText /\ AreDigits(digits, radix)
                 /\ FromStrRadix(digits, radix) = ValueOf(digits, radix)
           /\ digits # EmptyText /\ AreDigits(digits, radix) =>
                 FromStrRadix(digits, radix) =
                     IF IsU64(ValueOf(digits, radix)) THEN ValueOf(digits, radix) ELSE Invalid
BY DEF FromStrRadix, EmptyText

\* A number that does not fit an u64 does not fit an i64, whatever its sign.
LEMMA RadixReads ==
    ASSUME NEW digits \in Seq(Chars), NEW radix \in Radixes, NEW text,
           digits # EmptyText, AreDigits(digits, radix)
    PROVE  (IF FromStrRadix(digits, radix) # Invalid
            THEN Fitting(Signed(text, FromStrRadix(digits, radix))) ELSE Invalid)
           = Fitting(Signed(text, ValueOf(digits, radix)))
<1> DEFINE value == ValueOf(digits, radix)
           magnitude == FromStrRadix(digits, radix)
<1>1. value \in Nat
    BY ValueType
<1>2. magnitude = IF IsU64(value) THEN value ELSE Invalid
    BY FromStrFacts
<1> HIDE DEF value, magnitude
<1>3. CASE IsU64(value)
    <2>1. magnitude = value /\ magnitude # Invalid
        BY <1>1, <1>2, <1>3, LiteralsAssumption
    <2> QED BY <2>1 DEF value, magnitude
<1>4. CASE ~IsU64(value)
    <2>1. magnitude = Invalid
        BY <1>2, <1>4
    <2>2. ~IsI64(value) /\ ~IsI64(-value)
        BY <1>1, <1>4, WidthFacts
    <2>3. Fitting(Signed(text, value)) = Invalid
        BY <2>2 DEF Fitting, Signed
    <2> QED BY <2>1, <2>3 DEF value, magnitude
<1> QED BY <1>3, <1>4

\* A field that is none of the i64s but the least, and that for a number which
\* rounds to it.
Rounded(read, number) == read = LeastI64 /\ number \in RoundToLeast

\* Of a number that does not fit, the float of one at least as far from zero.
LEMMA FurtherFitsLess ==
    ASSUME NEW a \in Nat, NEW b \in Nat, a <= b, NEW text, ~IsI64(Signed(text, a)),
           IsI64(Signed(text, NearestFloat(b, 1)))
    PROVE  Rounded(Signed(text, NearestFloat(b, 1)), Signed(text, a))
<1> DEFINE float == NearestFloat(b, 1)
           half == PowerOfTwo(Width - Precision - 1)
<1>1. PICK limit \in Nat \ {0} :
          (\A n : IsI64(n) <=> n \in -limit..(limit - 1)) /\ LeastI64 = -limit
    BY WidthFacts
<1>2. half \in Nat
    <2>1. Width - Precision - 1 \in Nat
        BY LiteralsAssumption
    <2> QED BY <2>1, PowerFacts
<1>3. a >= limit /\ (IsNegative(text) => a >= limit + 1)
    BY <1>1 DEF Signed
<1>4. -LeastI64 = limit /\ b >= -LeastI64
    BY <1>1, <1>3
<1>5. float \in Nat /\ float >= limit /\ (float = limit => b - limit <= half)
    BY <1>4, NearestFloatFacts
<1> HIDE DEF float, half
<1>6. IsI64(Signed(text, float))
    BY DEF float
<1>7. IsNegative(text)
    BY <1>1, <1>5, <1>6 DEF Signed
<1>8. float = limit
    BY <1>1, <1>5, <1>6, <1>7 DEF Signed
<1>9. a - limit <= half
    BY <1>1, <1>2, <1>5, <1>8
<1>10. -a \in (-limit - half)..(-limit - 1)
    BY <1>2, <1>3, <1>7, <1>9
<1>11. Signed(text, a) \in RoundToLeast
    BY <1>1, <1>7, <1>10 DEF Signed, RoundToLeast, half
<1>12. Signed(text, float) = LeastI64
    BY <1>1, <1>7, <1>8 DEF Signed
<1> QED BY <1>11, <1>12 DEF Rounded, float

\* How a float is divided.
LEMMA PartsFacts ==
    ASSUME NEW unsigned \in Seq(Chars), NEW parts \in FloatParts(unsigned)
    PROVE  \E end \in 1..(Len(unsigned) + 1), i \in 1..(Len(unsigned) + 1) :
               /\ end <= Len(unsigned) => unsigned[end] = Exponent
               /\ i = end \/ (i <= Len(unsigned) /\ unsigned[i] = Point)
               /\ parts.whole = SubSeq(unsigned, 1, i - 1)
               /\ parts.fraction = SubSeq(unsigned, i + 1, end - 1)
               /\ parts.exponent = From(unsigned, end + 1)
               /\ AreDigits(parts.whole, 10)
<1> DEFINE marks(c) == {i \in DOMAIN unsigned : unsigned[i] = c}
           end == IF marks("e") = {} THEN Len(unsigned) + 1
                  ELSE CHOOSE i \in marks("e") : \A j \in marks("e") : i <= j
           points == {i \in marks(".") : i < end}
           spots == IF points = {} THEN {end} ELSE points
           divided(i) == [whole |-> SubSeq(unsigned, 1, i - 1),
                          fraction |-> SubSeq(unsigned, i + 1, end - 1),
                          exponent |-> From(unsigned, end + 1)]
<1>1. PICK i \in spots : parts = divided(i) /\ AreDigits(parts.whole, 10)
    BY DEF FloatParts
<1>2. DOMAIN unsigned = 1..Len(unsigned) /\ Len(unsigned) \in Nat
    OBVIOUS
<1>3. marks("e") = {j \in 1..Len(unsigned) : unsigned[j] = Exponent}
      /\ marks(".") = {j \in 1..Len(unsigned) : unsigned[j] = Point}
    BY <1>2 DEF Exponent, Point
<1> HIDE DEF marks
<1>4. end \in 1..(Len(unsigned) + 1) /\ (end <= Len(unsigned) => unsigned[end] = Exponent)
    <2>1. CASE marks("e") = {}
        <3>1. end = Len(unsigned) + 1
            BY <2>1
        <3> QED BY <1>2, <3>1
    <2>2. CASE marks("e") # {}
        <3>1. marks("e") \subseteq Nat
            BY <1>3
        <3>2. \E j \in marks("e") : \A l \in marks("e") : j <= l
            BY <2>2, <3>1, LeastNat
        <3>3. end \in marks("e")
            BY <2>2, <3>2
        <3> HIDE DEF end
        <3> QED BY <1>2, <1>3, <3>3
    <2> QED BY <2>1, <2>2
<1>5. i = end \/ (i \in 1..Len(unsigned) /\ unsigned[i] = Point)
    BY <1>1, <1>3
<1>6. /\ parts.whole = SubSeq(unsigned, 1, i - 1)
      /\ parts.fraction = SubSeq(unsigned, i + 1, end - 1)
      /\ parts.exponent = From(unsigned, end + 1)
    BY <1>1
<1> HIDE DEF end, points, spots
<1>7. i \in 1..(Len(unsigned) + 1)
    BY <1>2, <1>4, <1>5
<1>8. i = end \/ (i <= Len(unsigned) /\ unsigned[i] = Point)
    BY <1>2, <1>5
<1> QED BY <1>1, <1>4, <1>6, <1>7, <1>8

\* A text with a letter after its zero is no float.
LEMMA PrefixedIsNoFloat ==
    ASSUME NEW unsigned \in Seq(Chars), Len(unsigned) >= 2, unsigned[1] = Naught,
           unsigned[2] \in {Hex, Octal, Binary}
    PROVE  FloatParts(unsigned) = {}
<1> SUFFICES ASSUME NEW parts \in FloatParts(unsigned) PROVE FALSE
    OBVIOUS
<1>1. PICK end \in 1..(Len(unsigned) + 1), i \in 1..(Len(unsigned) + 1) :
          /\ end <= Len(unsigned) => unsigned[end] = Exponent
          /\ i = end \/ (i <= Len(unsigned) /\ unsigned[i] = Point)
          /\ parts.whole = SubSeq(unsigned, 1, i - 1)
          /\ AreDigits(parts.whole, 10)
    BY PartsFacts
<1>2. Len(unsigned) \in Nat /\ i \in Nat
    OBVIOUS
<1>3. i # 1 /\ i # 2
    <2>1. unsigned[1] \notin {Exponent, Point} /\ unsigned[2] \notin {Exponent, Point}
        BY CharFacts
    <2>2. unsigned[i] \in {Exponent, Point} \/ i > Len(unsigned)
        BY <1>1, <1>2
    <2>3. i > Len(unsigned) => i # 1 /\ i # 2
        BY <1>2
    <2> QED BY <2>1, <2>2, <2>3
<1> DEFINE whole == SubSeq(unsigned, 1, i - 1)
<1>4. Len(whole) = i - 1 /\ 2 \in 1..Len(whole) /\ whole[2] = unsigned[2] /\ DOMAIN whole = 1..Len(whole)
    BY <1>2, <1>3
<1>5. IsDigit(unsigned[2], 10)
    BY <1>1, <1>4 DEF AreDigits
<1>6. 10 \in Radixes
    BY DEF Radixes
<1> QED BY <1>5, <1>6, DigitFacts, CharFacts

\* Digits alone are a float without a fraction and without an exponent.
LEMMA DigitsAsFloat ==
    ASSUME NEW unsigned \in Seq(Chars), AreDigits(unsigned, 10),
           NEW parts \in FloatParts(unsigned)
    PROVE  parts.whole = unsigned /\ parts.fraction = EmptyText /\ parts.exponent = EmptyText
<1>1. PICK end \in 1..(Len(unsigned) + 1), i \in 1..(Len(unsigned) + 1) :
          /\ end <= Len(unsigned) => unsigned[end] = Exponent
          /\ i = end \/ (i <= Len(unsigned) /\ unsigned[i] = Point)
          /\ parts.whole = SubSeq(unsigned, 1, i - 1)
          /\ parts.fraction = SubSeq(unsigned, i + 1, end - 1)
          /\ parts.exponent = From(unsigned, end + 1)
    BY PartsFacts
<1>2. Len(unsigned) \in Nat /\ DOMAIN unsigned = 1..Len(unsigned)
    OBVIOUS
<1>3. \A j \in 1..Len(unsigned) : unsigned[j] \notin {Exponent, Point}
    <2> TAKE j \in 1..Len(unsigned)
    <2>1. IsDigit(unsigned[j], 10) /\ 10 \in Radixes
        BY <1>2 DEF AreDigits, Radixes
    <2> QED BY <2>1, DigitFacts
<1>4. end = Len(unsigned) + 1
    <2>1. end <= Len(unsigned) => end \in 1..Len(unsigned)
        BY <1>2
    <2>2. ~(end <= Len(unsigned))
        BY <1>1, <1>3, <2>1
    <2> QED BY <1>2, <2>2
<1>5. i = end
    <2>1. i <= Len(unsigned) => i \in 1..Len(unsigned)
        BY <1>2
    <2> QED BY <1>1, <1>3, <2>1
<1>6. SubSeq(unsigned, 1, Len(unsigned)) = unsigned
    BY TextFacts
<1>7. SubSeq(unsigned, Len(unsigned) + 2, Len(unsigned)) = EmptyText
    BY <1>2 DEF EmptyText
<1>8. i - 1 = Len(unsigned) /\ i + 1 = Len(unsigned) + 2 /\ end - 1 = Len(unsigned)
      /\ end + 1 = Len(unsigned) + 2
    BY <1>2, <1>4, <1>5
<1>9. From(unsigned, Len(unsigned) + 2) = EmptyText
    BY <1>7 DEF From
<1> QED BY <1>1, <1>6, <1>7, <1>8, <1>9

\* ... the one nearest to the value of the digits.
LEMMA FloatOfDigits ==
    ASSUME NEW text \in Seq(Chars), AreDigits(Unsigned(text), 10),
           FloatParts(Unsigned(text)) # {}
    PROVE  TruncatedFloat(text) = Signed(text, NearestFloat(ValueOf(Unsigned(text), 10), 1))
<1> DEFINE unsigned == Unsigned(text)
           parts == CHOOSE p \in FloatParts(unsigned) : TRUE
           digits == parts.whole \o parts.fraction
           mantissa == ValueOf(digits, 10)
           size == ValueOf(Unsigned(parts.exponent), 10)
           scale == (IF IsNegative(parts.exponent) THEN -size ELSE size) - Len(parts.fraction)
           power(n, most) == 10^(IF n < most THEN n ELSE most)
           magnitude == IF scale < 0
                        THEN NearestFloat(mantissa, power(-scale, Len(digits) + 1))
                        ELSE NearestFloat(mantissa * power(scale, Width), 1)
<1>1. TruncatedFloat(text) = IF IsNegative(text) THEN -magnitude ELSE magnitude
    BY DEF TruncatedFloat
<1>2. parts \in FloatParts(unsigned)
    OBVIOUS
<1>3. unsigned \in Seq(Chars)
    BY UnsignedType
<1> HIDE DEF parts
<1>4. parts.whole = unsigned /\ parts.fraction = EmptyText /\ parts.exponent = EmptyText
    <2>1. AreDigits(unsigned, 10)
        OBVIOUS
    <2> HIDE DEF unsigned
    <2> QED BY <1>2, <1>3, <2>1, DigitsAsFloat
<1>5. digits = unsigned
    BY <1>3, <1>4, TextFacts
<1>6. size = 0 /\ scale = 0
    <2>1. ValueOf(EmptyText, 10) = 0
        BY ValueOfNone DEF EmptyText
    <2>2. size = 0
        BY <1>4, <2>1, UnsignedOfEmpty
    <2> HIDE DEF size
    <2>3. Len(parts.fraction) = 0 /\ ~IsNegative(parts.exponent)
        BY <1>4, EmptyTextType, UnsignedOfEmpty
    <2> QED BY <2>2, <2>3
<1>7. ValueOf(unsigned, 10) \in Nat
    <2>1. AreDigits(unsigned, 10) /\ 10 \in Radixes
        BY DEF Radixes
    <2> QED BY <1>3, <2>1, ValueType
<1>8. power(scale, Width) = 1
    <2>1. 10^0 = 1
        OBVIOUS
    <2>2. (IF scale < Width THEN scale ELSE Width) = 0
        BY <1>6, LiteralsAssumption
    <2> HIDE DEF scale
    <2> QED BY <2>1, <2>2
<1>9. magnitude = NearestFloat(mantissa, 1)
    <2> HIDE DEF power, mantissa
    <2>1. mantissa \in Nat
        BY <1>5, <1>7 DEF mantissa
    <2>2. ~(scale < 0)
        BY <1>6
    <2> HIDE DEF scale
    <2>3. mantissa * 1 = mantissa
        BY <2>1
    <2> QED BY <1>8, <2>2, <2>3
<1>10. mantissa = ValueOf(unsigned, 10)
    BY <1>5
<1> HIDE DEF magnitude, mantissa
<1> QED BY <1>1, <1>9, <1>10 DEF Signed, unsigned

\* An integer that does not fit does not fit as a float either, if it is one, or
\* is rounded.
LEMMA FloatFitsNotEither ==
    ASSUME NEW text \in Seq(Chars), NEW radix, NEW before,
           Based(Unsigned(text), radix, before), FloatParts(Unsigned(text)) # {},
           NEW digits \in Seq(Chars), digits = From(Unsigned(text), before + 1),
           digits # EmptyText, AreDigits(digits, radix),
           ~IsI64(Signed(text, ValueOf(digits, radix))), IsI64(TruncatedFloat(text))
    PROVE  Rounded(TruncatedFloat(text), Signed(text, ValueOf(digits, radix)))
<1> DEFINE unsigned == Unsigned(text)
<1>1. unsigned \in Seq(Chars) /\ Len(unsigned) \in Nat
    <2>1. unsigned \in Seq(Chars)
        BY UnsignedType
    <2> HIDE DEF unsigned
    <2> QED BY <2>1
<1>2. Based(unsigned, radix, before)
    OBVIOUS
<1>3. AreDigits(unsigned, 10) =>
          TruncatedFloat(text) = Signed(text, NearestFloat(ValueOf(unsigned, 10), 1))
    BY FloatOfDigits
<1>4. before # 2
    <2>1. FloatParts(unsigned) # {}
        OBVIOUS
    <2> HIDE DEF unsigned
    <2> SUFFICES ASSUME before = 2 PROVE FALSE
        OBVIOUS
    <2>2. Len(unsigned) >= 2 /\ unsigned[1] = Naught /\ unsigned[2] \in {Hex, Octal, Binary}
        BY <1>2 DEF Based
    <2> QED BY <1>1, <2>1, <2>2, PrefixedIsNoFloat
<1>5. digits = From(unsigned, before + 1)
    OBVIOUS
<1> HIDE DEF unsigned
<1>6. before \in 0..Len(unsigned) /\ (before = 0 \/ before = 1)
    BY <1>1, <1>2, <1>4, BaseType
<1>7. /\ Len(digits) = Len(unsigned) - before
      /\ \A j \in 1..(Len(unsigned) - before) : digits[j] = unsigned[before + j]
    BY <1>1, <1>5, <1>6, FromFacts
<1>8. radix \in Radixes /\ radix <= 10 /\ 10 \in Radixes
    BY <1>2, <1>4 DEF Based, Radixes
<1>9. ValueOf(digits, radix) \in Nat
    BY <1>8, ValueType
<1>10. CASE before = 0
    <2>1. From(unsigned, 1) = unsigned
        BY <1>1 DEF From
    <2>2. radix = 10
        BY <1>2, <1>10 DEF Based
    <2>3. digits = unsigned
        BY <1>5, <1>10, <2>1
    <2>4. TruncatedFloat(text) = Signed(text, NearestFloat(ValueOf(digits, radix), 1))
        BY <1>3, <2>2, <2>3
    <2> QED BY <1>9, <2>4, FurtherFitsLess
<1>11. CASE before = 1
    <2>1. radix = 8 /\ unsigned[1] = Naught /\ Len(unsigned) >= 2
        BY <1>2, <1>11 DEF Based
    <2>2. AreDigits(unsigned, 10)
        <3> SUFFICES ASSUME NEW i \in 1..Len(unsigned) PROVE IsDigit(unsigned[i], 10)
            BY <1>1 DEF AreDigits
        <3>1. CASE i = 1
            BY <1>8, <2>1, <3>1, NaughtIsDigit
        <3>2. CASE i # 1
            <4> DEFINE j == i - 1
            <4>1. j \in 1..(Len(unsigned) - 1) /\ 1 + j = i
                BY <1>1, <3>2
            <4> HIDE DEF j
            <4>2. digits[j] = unsigned[1 + j] /\ j \in DOMAIN digits
                BY <1>1, <1>7, <1>11, <4>1
            <4>3. IsDigit(digits[j], radix)
                BY <4>2 DEF AreDigits
            <4>4. IsDigit(digits[j], 10)
                BY <1>8, <4>3, DigitFacts
            <4> QED BY <4>1, <4>2, <4>4
        <3> QED BY <3>1, <3>2
    <2>3. Len(unsigned) = 1 + Len(digits) /\ \A j \in 1..Len(digits) : unsigned[1 + j] = digits[j]
        BY <1>1, <1>7, <1>11
    <2>4. ValueOf(digits, 8) <= ValueOf(unsigned, 10)
        <3>1. AreDigits(digits, 8)
            BY <2>1
        <3> QED BY <1>1, <2>2, <2>3, <3>1, OctalIsLess
    <2>5. ValueOf(unsigned, 10) \in Nat
        BY <1>1, <1>8, <2>2, ValueType
    <2>6. ValueOf(digits, radix) <= ValueOf(unsigned, 10)
        BY <2>1, <2>4
    <2>7. TruncatedFloat(text) = Signed(text, NearestFloat(ValueOf(unsigned, 10), 1))
        BY <1>3, <2>2
    <2> QED BY <1>9, <2>5, <2>6, <2>7, FurtherFitsLess
<1> QED BY <1>6, <1>10, <1>11

\* What a field of the file reads, of a text with or without underscores.
LEMMA FieldReads ==
    ASSUME NEW text \in Seq(Chars), text # EmptyText,
           text[1] \in {Plus, Minus} \/ IsDigit(text[1], 10),
           NEW plain \in Seq(Chars), plain = Plain(text),
           NEW radix, NEW before, Based(Unsigned(plain), radix, before),
           NEW digits \in Seq(Chars), digits = From(Unsigned(plain), before + 1),
           digits # EmptyText, AreDigits(digits, radix)
    PROVE  /\ ParseIntBase0(plain) = Fitting(Signed(plain, ValueOf(digits, radix)))
           /\ \/ IntField(text) = Fitting(Signed(plain, ValueOf(digits, radix)))
              \/ /\ Rounded(IntField(text), Signed(plain, ValueOf(digits, radix)))
                 /\ ~IsI64(Signed(plain, ValueOf(digits, radix)))
<1> DEFINE starts == text # <<>> /\ (IsDigit(Head(text), 10) \/ Head(text) \in {"+", "-", "."})
           integer == ParseIntBase0(Plain(text))
           number == Signed(plain, ValueOf(digits, radix))
<1>1. starts
    <2>1. Head(text) = text[1] /\ text # <<>>
        BY DEF EmptyText
    <2> QED BY <2>1 DEF Plus, Minus
<1>2. Unsigned(plain) \in Seq(Chars)
    BY UnsignedType
<1>3. radix \in Radixes
    BY <1>2, BaseType
<1>4. ParseIntBase0(plain) = Fitting(number)
    <2>1. ParseIntBase0(plain) = IF FromStrRadix(digits, radix) # Invalid
                                 THEN Fitting(Signed(plain, FromStrRadix(digits, radix))) ELSE Invalid
        BY FileReads
    <2> QED BY <1>3, <2>1, RadixReads
<1>5. IntField(text) = CASE starts /\ integer # Invalid -> integer
                         [] starts /\ integer = Invalid /\ FloatParts(Unsigned(Plain(text))) # {} ->
                                Truncate(Plain(text))
                         [] OTHER -> Invalid
    BY Zenon DEF IntField
<1>6. integer = Fitting(number)
    BY <1>4
<1>7. FloatParts(Unsigned(Plain(text))) # {} /\ ~IsI64(number) =>
          Truncate(Plain(text)) = Invalid \/ Rounded(Truncate(Plain(text)), number)
    <2> SUFFICES ASSUME FloatParts(Unsigned(plain)) # {}, ~IsI64(number)
                 PROVE  Truncate(plain) = Invalid \/ Rounded(Truncate(plain), number)
        OBVIOUS
    <2>1. IsI64(TruncatedFloat(plain)) => Rounded(TruncatedFloat(plain), number)
        BY FloatFitsNotEither
    <2> HIDE DEF number
    <2> QED BY <2>1 DEF Truncate
<1>8. IsI64(number) => Fitting(number) # Invalid
    <2>1. IsI64(number) => number \in Int
        BY WidthFacts
    <2> HIDE DEF number
    <2> QED BY <2>1, LiteralsAssumption DEF Fitting
<1>9. ~IsI64(number) => Fitting(number) = Invalid
    BY DEF Fitting
<1> HIDE DEF starts, integer, number
<1>10. IntField(text) = Fitting(number) \/ (Rounded(IntField(text), number) /\ ~IsI64(number))
    <2>1. CASE IsI64(number)
        BY <1>1, <1>5, <1>6, <1>8, <2>1
    <2>2. CASE ~IsI64(number) /\ FloatParts(Unsigned(Plain(text))) # {}
        <3>1. integer = Invalid /\ Fitting(number) = Invalid
            BY <1>6, <1>9, <2>2
        <3>2. IntField(text) = Truncate(Plain(text))
            BY <1>1, <1>5, <2>2, <3>1
        <3> QED BY <1>7, <2>2, <3>1, <3>2
    <2>3. CASE ~IsI64(number) /\ FloatParts(Unsigned(Plain(text))) = {}
        <3>1. integer = Invalid
            BY <1>6, <1>9, <2>3
        <3> QED BY <1>1, <1>5, <1>6, <2>3, <3>1
    <2> QED BY <2>1, <2>2, <2>3
<1> QED BY <1>4, <1>10 DEF number

---------------------------------------------------------------------------
(* The text without its underscores is read in the same way. *)

\* How many characters come before an unsigned text.
SignLength(text) == IF IsSigned(text) THEN 1 ELSE 0

LEMMA SignLengthFacts ==
    ASSUME NEW text \in Seq(Chars), text # EmptyText
    PROVE  /\ SignLength(text) \in 0..Len(text) /\ SignLength(text) \in {0, 1}
           /\ SignLength(text) = 1 <=> text[1] \in {Plus, Minus}
           /\ Unsigned(text) = From(text, SignLength(text) + 1)
           /\ Unsigned(text) \in Seq(Chars)
           /\ Len(Unsigned(text)) = Len(text) - SignLength(text)
           /\ \A j \in 1..(Len(text) - SignLength(text)) :
                 Unsigned(text)[j] = text[SignLength(text) + j]
<1> DEFINE k == SignLength(text)
<1>1. Len(text) \in Nat /\ Len(text) >= 1 /\ From(text, 1) = text
    BY DEF EmptyText, From
<1>2. k \in 0..Len(text) /\ k \in {0, 1} /\ (k = 1 <=> text[1] \in {Plus, Minus})
    BY <1>1, SignFacts DEF SignLength
<1>3. Unsigned(text) = From(text, k + 1)
    <2>1. CASE IsSigned(text)
        <3>1. k = 1 /\ k + 1 = 2
            BY <2>1 DEF SignLength
        <3> QED BY <2>1, <3>1, SignFacts
    <2>2. CASE ~IsSigned(text)
        <3>1. k = 0 /\ k + 1 = 1
            BY <2>2 DEF SignLength
        <3> QED BY <1>1, <2>2, <3>1, SignFacts
    <2> QED BY <2>1, <2>2
<1> HIDE DEF k
<1>4. From(text, k + 1) \in Seq(Chars) /\ Len(From(text, k + 1)) = Len(text) - k
      /\ \A j \in 1..(Len(text) - k) : From(text, k + 1)[j] = text[k + j]
    BY <1>2, FromFacts
<1> QED BY <1>2, <1>3, <1>4 DEF k

\* A literal begins with its sign or with a digit.
LEMMA FirstCharacter ==
    ASSUME NEW text \in Seq(Chars), NEW radix, NEW before,
           Based(Unsigned(text), radix, before),
           NEW digits \in Seq(Chars), digits = From(Unsigned(text), before + 1),
           digits # EmptyText, AreDigits(digits, radix)
    PROVE  text # EmptyText /\ (text[1] \in {Plus, Minus} \/ IsDigit(text[1], 10))
<1> DEFINE unsigned == Unsigned(text)
<1>1. unsigned \in Seq(Chars)
    BY UnsignedType
<1>2. text # EmptyText
    <2> SUFFICES ASSUME text = EmptyText PROVE FALSE
        OBVIOUS
    <2>1. unsigned = EmptyText
        BY UnsignedOfEmpty
    <2>2. before = 0
        BY <2>1, EmptyTextType DEF Based
    <2>3. From(EmptyText, 1) = EmptyText
        BY DEF From, EmptyText
    <2> QED BY <2>1, <2>2, <2>3
<1> DEFINE k == SignLength(text)
<1>3. k \in {0, 1} /\ (k = 1 <=> text[1] \in {Plus, Minus})
      /\ Len(unsigned) = Len(text) - k /\ Len(text) \in Nat
      /\ \A j \in 1..(Len(text) - k) : unsigned[j] = text[k + j]
    BY <1>2, SignLengthFacts
<1>4. Based(unsigned, radix, before) /\ digits = From(unsigned, before + 1)
    OBVIOUS
<1> HIDE DEF unsigned, k
<1>5. CASE k = 1
    BY <1>2, <1>3, <1>5
<1>6. CASE k = 0 /\ before # 0
    <2>1. Len(unsigned) >= 2 /\ unsigned[1] = Naught
        BY <1>4, <1>6 DEF Based
    <2>2. text[1] = Naught
        BY <1>3, <1>6, <2>1
    <2>3. IsDigit(Naught, 10)
        BY NaughtIsDigit DEF Radixes
    <2> QED BY <1>2, <2>2, <2>3
<1>7. CASE k = 0 /\ before = 0
    <2>1. radix = 10
        BY <1>4, <1>7 DEF Based
    <2>2. From(unsigned, 1) = unsigned
        BY <1>1 DEF From
    <2>3. digits = unsigned
        BY <1>4, <1>7, <2>2
    <2>4. Len(digits) >= 1 /\ Len(digits) \in Nat
        BY DEF EmptyText
    <2>5. text[1] = digits[1] /\ 1 \in DOMAIN digits
        BY <1>3, <1>7, <2>3, <2>4
    <2> QED BY <1>2, <2>1, <2>5 DEF AreDigits
<1> QED BY <1>3, <1>5, <1>6, <1>7

\* Leaving out underscores keeps a first character that is none.
LEMMA PlainFirst ==
    ASSUME NEW text \in Seq(Chars), text # EmptyText, text[1] # Mark
    PROVE  Plain(text) # EmptyText /\ Plain(text)[1] = text[1]
<1>1. Len(text) \in Nat /\ Len(text) >= 1
    BY DEF EmptyText
<1> DEFINE head == SubSeq(text, 1, 1)
           rest == Plain(From(text, 1 + 1))
<1>2. Plain(text) = head \o rest /\ rest \in Seq(Chars)
    <2>1. 1 \in 0..Len(text) /\ \A i \in 1..1 : text[i] # Mark
        BY <1>1
    <2> QED BY <1>1, <2>1, PlainSplit
<1>3. head \in Seq(Chars) /\ Len(head) = 1 /\ head[1] = text[1]
    BY <1>1
<1> HIDE DEF head, rest
<1>4. Len(head \o rest) = 1 + Len(rest) /\ (head \o rest)[1] = text[1]
    BY <1>2, <1>3, ConcatFacts
<1>5. Len(rest) \in Nat
    BY <1>2
<1>6. Plain(text) # EmptyText
    BY <1>2, <1>4, <1>5, EmptyTextType
<1> QED BY <1>2, <1>4, <1>6

\* The sign and the prefix stay, and what is left of the digits is read in the
\* same base: "0_7" stays octal, and "1_0" has no leading zero.
LEMMA PlainBased ==
    ASSUME NEW text \in Seq(Chars), NEW radix, NEW before,
           Based(Unsigned(text), radix, before),
           NEW raw \in Seq(Chars), raw = From(Unsigned(text), before + 1),
           UnderscoresOk(raw, before + 1 > 1),
           Plain(raw) # EmptyText, AreDigits(Plain(raw), radix)
    PROVE  /\ text # EmptyText /\ Plain(text) # EmptyText /\ text[1] = Plain(text)[1]
           /\ Based(Unsigned(Plain(text)), radix, before)
           /\ From(Unsigned(Plain(text)), before + 1) = Plain(raw)
<1> DEFINE unsigned == Unsigned(text)
           plain == Plain(text)
           digits == Plain(raw)
           k == SignLength(text)
           K == k + before
           head == SubSeq(text, 1, K)
<1>1. raw # EmptyText
    BY PlainOfEmpty
<1>2. text # EmptyText
    <2> SUFFICES ASSUME text = EmptyText PROVE FALSE
        OBVIOUS
    <2>1. unsigned = EmptyText
        BY UnsignedOfEmpty
    <2>2. before = 0
        BY <2>1, EmptyTextType DEF Based
    <2>3. From(EmptyText, 1) = EmptyText
        BY DEF From, EmptyText
    <2> QED BY <1>1, <2>1, <2>2, <2>3
<1>3. k \in 0..Len(text) /\ k \in {0, 1} /\ (k = 1 <=> text[1] \in {Plus, Minus})
      /\ unsigned = From(text, k + 1) /\ unsigned \in Seq(Chars)
      /\ Len(unsigned) = Len(text) - k /\ Len(text) \in Nat
      /\ \A j \in 1..(Len(text) - k) : unsigned[j] = text[k + j]
    BY <1>2, SignLengthFacts
<1>4. Based(unsigned, radix, before) /\ raw = From(unsigned, before + 1)
    OBVIOUS
<1>5. digits \in Seq(Chars) /\ plain \in Seq(Chars) /\ Len(digits) \in Nat /\ Len(digits) >= 1
    <2>1. digits \in Seq(Chars) /\ plain \in Seq(Chars)
        BY PlainType
    <2>2. digits # EmptyText
        OBVIOUS
    <2> HIDE DEF digits
    <2> QED BY <2>1, <2>2 DEF EmptyText
<1>6. AreDigits(digits, radix) /\ UnderscoresOk(raw, before + 1 > 1)
    OBVIOUS
<1>p. digits = Plain(raw) /\ plain = Plain(text)
    OBVIOUS
<1> HIDE DEF unsigned, plain, digits, k
<1>7. radix \in Radixes /\ before \in 0..Len(unsigned) /\ before \in 0..2
    BY <1>3, <1>4, BaseType
<1>8. K \in 0..Len(text) /\ K \in Nat /\ K + 1 = k + before + 1
    BY <1>3, <1>7
<1>9. raw = From(text, K + 1)
    <2>1. before \in 0..(Len(text) - k)
        BY <1>3, <1>7
    <2>2. From(From(text, k + 1), before + 1) = From(text, k + before + 1)
        BY <1>3, <2>1, FromFrom
    <2> QED BY <1>3, <1>4, <1>8, <2>2
\* The sign and the prefix have no underscores, nor does a first digit.
<1>10. before = 2 => unsigned[1] = Naught /\ unsigned[2] \in {Hex, Octal, Binary}
    BY <1>4 DEF Based
<1>11. before = 1 => unsigned[1] = Naught
    BY <1>4 DEF Based
<1>12. \A i \in 1..K : text[i] # Mark
    <2> TAKE i \in 1..K
    <2>1. CASE i = 1 /\ k = 1
        BY <1>3, <2>1, CharFacts
    <2>2. CASE i # 1 \/ k # 1
        <3> DEFINE j == i - k
        <3>1. j \in 1..before /\ k + j = i /\ j \in 1..(Len(text) - k)
            <4>1. i \in 1..(k + before) /\ i \in Nat /\ k \in {0, 1} /\ before \in Nat
                BY <1>3, <1>7
            <4>2. i - k >= 1 /\ i - k <= before /\ k + (i - k) = i
                BY <2>2, <4>1
            <4> QED BY <1>3, <1>7, <4>1, <4>2
        <3> HIDE DEF j
        <3>2. text[i] = unsigned[j]
            BY <1>3, <3>1
        <3>3. j = 1 \/ (j = 2 /\ before = 2)
            BY <1>7, <3>1
        <3>4. before = 1 \/ before = 2
            BY <1>7, <3>1
        <3>5. unsigned[j] \in {Naught, Hex, Octal, Binary}
            BY <1>10, <1>11, <3>3, <3>4
        <3> QED BY <3>2, <3>5, CharFacts
    <2> QED BY <2>1, <2>2
<1>13. before = 0 => raw[1] # Mark
    <2>1. 1 \in DOMAIN raw
        BY <1>1 DEF EmptyText
    <2>2. before = 0 => ~(before + 1 > 1)
        OBVIOUS
    <2> QED BY <1>6, <2>1, <2>2 DEF UnderscoresOk, Mark
<1>14. before = 0 => digits[1] = raw[1]
    BY <1>1, <1>13, <1>p, PlainFirst
<1>15. plain = head \o digits
    BY <1>8, <1>9, <1>12, <1>p, PlainSplit
<1>16. head \in Seq(Chars) /\ Len(head) = K /\ \A i \in 1..K : head[i] = text[i]
    BY <1>8
<1> HIDE DEF head
<1>17. Len(plain) = K + Len(digits) /\ (\A i \in 1..K : plain[i] = text[i])
       /\ (\A j \in 1..Len(digits) : plain[K + j] = digits[j])
       /\ From(plain, K + 1) = digits
    <2>1. Len(head \o digits) = Len(head) + Len(digits)
          /\ (\A i \in 1..Len(head) : (head \o digits)[i] = head[i])
          /\ (\A j \in 1..Len(digits) : (head \o digits)[Len(head) + j] = digits[j])
        BY <1>5, <1>16, ConcatFacts
    <2>2. From(head \o digits, Len(head) + 1) = digits
        BY <1>5, <1>16, JoinFacts
    <2> HIDE DEF K
    <2> QED BY <1>15, <1>16, <2>1, <2>2
<1>18. plain # EmptyText
    BY <1>5, <1>8, <1>17, EmptyTextType
<1>19. plain[1] = text[1]
    <2>1. CASE K = 0
        <3>1. raw = text /\ before = 0
            <4>1. From(text, 1) = text
                BY DEF From
            <4> QED BY <1>3, <1>7, <1>9, <2>1, <4>1
        <3>2. digits = plain
            <4>1. From(plain, 1) = plain
                BY <1>5 DEF From
            <4> QED BY <1>17, <2>1, <4>1
        <3> QED BY <1>14, <3>1, <3>2
    <2>2. CASE K # 0
        <3>1. 1 \in 1..K
            BY <1>8, <2>2
        <3> QED BY <1>17, <3>1
    <2> QED BY <2>1, <2>2
<1> DEFINE rest == Unsigned(plain)
<1>20. SignLength(plain) = k
    <2>1. SignLength(plain) \in {0, 1} /\ (SignLength(plain) = 1 <=> plain[1] \in {Plus, Minus})
        BY <1>5, <1>18, SignLengthFacts
    <2> QED BY <1>3, <1>19, <2>1
<1>21. rest = From(plain, k + 1) /\ rest \in Seq(Chars) /\ Len(rest) = Len(plain) - k
       /\ \A j \in 1..(Len(plain) - k) : rest[j] = plain[k + j]
    BY <1>5, <1>18, <1>20, SignLengthFacts
<1> HIDE DEF rest
<1>22. Len(rest) = before + Len(digits) /\ Len(plain) - k = before + Len(digits)
    BY <1>3, <1>5, <1>7, <1>17, <1>21
<1>23. From(rest, before + 1) = digits
    <2>1. k \in 0..Len(plain) /\ before \in 0..(Len(plain) - k)
        BY <1>3, <1>5, <1>7, <1>17
    <2>2. From(From(plain, k + 1), before + 1) = From(plain, k + before + 1)
        BY <1>5, <2>1, FromFrom
    <2> QED BY <1>8, <1>17, <1>21, <2>2
<1>24. \A j \in 1..before : rest[j] = unsigned[j]
    <2> TAKE j \in 1..before
    <2>1. k + j \in 1..K /\ j \in 1..(before + Len(digits)) /\ j \in 1..(Len(text) - k)
        BY <1>3, <1>5, <1>7
    <2>2. rest[j] = plain[k + j]
        BY <1>21, <1>22, <2>1
    <2>3. plain[k + j] = text[k + j]
        BY <1>17, <2>1
    <2> QED BY <1>3, <2>1, <2>2, <2>3
<1>25. rest[before + 1] = digits[1]
    <2>1. before + 1 \in 1..(before + Len(digits)) /\ k + (before + 1) = K + 1 /\ 1 \in 1..Len(digits)
        BY <1>3, <1>5, <1>7
    <2>2. rest[before + 1] = plain[k + (before + 1)]
        BY <1>21, <1>22, <2>1
    <2>3. plain[K + 1] = digits[1]
        BY <1>17, <2>1
    <2> QED BY <2>1, <2>2, <2>3
<1> HIDE DEF K
<1>26. IsDigit(digits[1], radix)
    <2>1. 1 \in DOMAIN digits
        BY <1>5
    <2> QED BY <1>6, <2>1 DEF AreDigits
<1>27. Based(rest, radix, before)
    <2>1. CASE before = 2
        <3>1. rest[1] = unsigned[1] /\ rest[2] = unsigned[2] /\ Len(rest) >= 2
            BY <1>5, <1>22, <1>24, <2>1
        <3> QED BY <1>4, <2>1, <3>1 DEF Based
    <2>2. CASE before = 1
        <3>1. rest[1] = unsigned[1] /\ Len(rest) >= 2 /\ radix = 8
            BY <1>4, <1>5, <1>22, <1>24, <2>2 DEF Based
        <3>2. rest[2] = digits[1]
            BY <1>25, <2>2
        <3>3. rest[2] \notin {Hex, Octal, Binary}
            BY <1>7, <1>26, <3>1, <3>2, DigitFacts
        <3> QED BY <1>11, <2>2, <3>1, <3>3 DEF Based
    <2>3. CASE before = 0
        <3>1. radix = 10 /\ (Len(unsigned) >= 2 => unsigned[1] # Naught)
            BY <1>4, <2>3 DEF Based
        <3>2. raw = unsigned
            <4>1. From(unsigned, 1) = unsigned
                <5>1. SubSeq(unsigned, 1, Len(unsigned)) = unsigned
                    BY <1>3
                <5> QED BY <5>1 DEF From
            <4> QED BY <1>4, <2>3, <4>1
        <3>3. rest[1] = unsigned[1]
            BY <1>14, <1>25, <2>3, <3>2
        <3>4. Len(rest) = Len(digits)
            BY <1>5, <1>22, <2>3
        <3>5. Len(unsigned) < 2 => Len(digits) < 2
            <4> SUFFICES ASSUME Len(raw) < 2 PROVE Len(digits) < 2
                BY <3>2
            <4>1. \A i \in 1..Len(raw) : i = 1
                OBVIOUS
            <4>2. \A i \in 1..Len(raw) : raw[i] # Mark
                BY <1>13, <2>3, <4>1
            <4>3. digits = raw
                BY <1>p, <4>2, PlainAlready
            <4> QED BY <4>3
        <3>6. Len(unsigned) < 2 \/ Len(unsigned) >= 2
            BY <1>3
        <3> QED BY <1>5, <2>3, <3>1, <3>3, <3>4, <3>5, <3>6 DEF Based
    <2> QED BY <1>7, <2>1, <2>2, <2>3
<1> QED BY <1>2, <1>18, <1>19, <1>23, <1>27, <1>p DEF rest, plain, digits

---------------------------------------------------------------------------
(* What is spelled. *)

SpelledAs(text, sign, prefix, digits) ==
    /\ sign \in Signs /\ prefix \in Prefixes
    /\ \E i \in DOMAIN text : digits = From(text, i)
    /\ text = sign \o prefix[1] \o digits
    /\ AreDigits(digits, prefix[2])
    /\ prefix[2] = 10 /\ Len(digits) > 1 => digits[1] # Naught

LEMMA SpelledFacts ==
    ASSUME NEW text, NEW number
    PROVE  number \in Spelled(text) <=>
               \E sign, prefix, digits :
                   /\ SpelledAs(text, sign, prefix, digits)
                   /\ number = IF sign = <<Minus>> THEN -ValueOf(digits, prefix[2])
                               ELSE ValueOf(digits, prefix[2])
<1> DEFINE spellings ==
               {s \in [sign : Signs, prefix : Prefixes, digits : {From(text, i) : i \in DOMAIN text}] :
                   /\ text = s.sign \o s.prefix[1] \o s.digits
                   /\ AreDigits(s.digits, s.prefix[2])
                   /\ s.prefix[2] = 10 /\ Len(s.digits) > 1 => s.digits[1] # "0"}
           value(s) == ValueOf(s.digits, s.prefix[2])
           meant(s) == IF s.sign = <<"-">> THEN -value(s) ELSE value(s)
<1>1. number \in Spelled(text) <=> \E s \in spellings : number = meant(s)
    BY DEF Spelled
<1>2. ASSUME NEW s \in spellings
      PROVE  SpelledAs(text, s.sign, s.prefix, s.digits)
    BY <1>2 DEF SpelledAs, Naught
<1>3. ASSUME NEW sign, NEW prefix, NEW digits, SpelledAs(text, sign, prefix, digits)
      PROVE  [sign |-> sign, prefix |-> prefix, digits |-> digits] \in spellings
    BY <1>3 DEF SpelledAs, Naught
<1> HIDE DEF spellings
<1>4. ASSUME number \in Spelled(text)
      PROVE  \E sign, prefix, digits :
                 /\ SpelledAs(text, sign, prefix, digits)
                 /\ number = IF sign = <<Minus>> THEN -ValueOf(digits, prefix[2])
                             ELSE ValueOf(digits, prefix[2])
    <2>1. PICK s \in spellings : number = meant(s)
        BY <1>1, <1>4
    <2>2. number = IF s.sign = <<Minus>> THEN -ValueOf(s.digits, s.prefix[2])
                   ELSE ValueOf(s.digits, s.prefix[2])
        BY <2>1 DEF Minus
    <2> QED BY <1>2, <2>2
<1>5. ASSUME NEW sign, NEW prefix, NEW digits, SpelledAs(text, sign, prefix, digits),
             number = IF sign = <<Minus>> THEN -ValueOf(digits, prefix[2])
                      ELSE ValueOf(digits, prefix[2])
      PROVE  number \in Spelled(text)
    <2> DEFINE s == [sign |-> sign, prefix |-> prefix, digits |-> digits]
    <2>1. number = meant(s)
        BY <1>5 DEF Minus
    <2>2. s \in spellings
        BY <1>3, <1>5
    <2> HIDE DEF s, meant
    <2> QED BY <1>1, <2>1, <2>2
<1> QED BY <1>4, <1>5

LEMMA PrefixFacts ==
    ASSUME NEW prefix \in Prefixes
    PROVE  \/ prefix[1] = <<Naught, Hex>> /\ prefix[2] = 16
           \/ prefix[1] = <<Naught, Octal>> /\ prefix[2] = 8
           \/ prefix[1] = <<Naught, Binary>> /\ prefix[2] = 2
           \/ prefix[1] = <<Naught>> /\ prefix[2] = 8
           \/ prefix[1] = EmptyText /\ prefix[2] = 10
BY DEF Prefixes, Naught, Hex, Octal, Binary, EmptyText

LEMMA PrefixExists ==
    /\ <<<<Naught, Hex>>, 16>> \in Prefixes /\ <<<<Naught, Octal>>, 8>> \in Prefixes
    /\ <<<<Naught, Binary>>, 2>> \in Prefixes /\ <<<<Naught>>, 8>> \in Prefixes
    /\ <<EmptyText, 10>> \in Prefixes
BY DEF Prefixes, Naught, Hex, Octal, Binary, EmptyText

LEMMA SignsFacts == Signs = {EmptyText, <<Plus>>, <<Minus>>}
BY DEF Signs, EmptyText, Plus, Minus

LEMMA ConcatAssociative ==
    ASSUME NEW s \in Seq(Chars), NEW t \in Seq(Chars), NEW u \in Seq(Chars)
    PROVE  s \o t \o u = s \o (t \o u)
OBVIOUS

LEMMA SignTexts ==
    ASSUME NEW sign \in Signs
    PROVE  /\ sign \in Seq(Chars) /\ Len(sign) \in {0, 1}
           /\ Len(sign) = 1 => sign[1] \in {Plus, Minus}
           /\ sign = <<Minus>> <=> Len(sign) = 1 /\ sign[1] = Minus
           /\ Len(sign) = 0 => sign = EmptyText
<1>1. Plus \in Chars /\ Minus \in Chars /\ Plus # Minus
    BY CharFacts
<1>2. CASE sign = EmptyText
    <2>1. Len(<<Minus>>) = 1
        OBVIOUS
    <2> QED BY <1>2, <2>1, EmptyTextType
<1>3. CASE sign = <<Plus>>
    BY <1>1, <1>3
<1>4. CASE sign = <<Minus>>
    BY <1>1, <1>4
<1> QED BY <1>2, <1>3, <1>4, SignsFacts

LEMMA PrefixTexts ==
    ASSUME NEW prefix \in Prefixes
    PROVE  /\ prefix[1] \in Seq(Chars) /\ Len(prefix[1]) \in 0..2 /\ prefix[2] \in Radixes
           /\ Len(prefix[1]) = 2 =>
                 /\ prefix[1][1] = Naught
                 /\ \/ prefix[1][2] = Hex /\ prefix[2] = 16
                    \/ prefix[1][2] = Octal /\ prefix[2] = 8
                    \/ prefix[1][2] = Binary /\ prefix[2] = 2
           /\ Len(prefix[1]) = 1 => prefix[1][1] = Naught /\ prefix[2] = 8
           /\ Len(prefix[1]) = 0 => prefix[1] = EmptyText /\ prefix[2] = 10
<1> DEFINE p == prefix[1]
           r == prefix[2]
<1>1. {Naught, Hex, Octal, Binary} \subseteq Chars
    BY CharFacts
<1>2. \/ p = <<Naught, Hex>> /\ r = 16
      \/ p = <<Naught, Octal>> /\ r = 8
      \/ p = <<Naught, Binary>> /\ r = 2
      \/ p = <<Naught>> /\ r = 8
      \/ p = EmptyText /\ r = 10
    BY PrefixFacts
<1> HIDE DEF p, r
<1>3. ASSUME NEW c \in {Hex, Octal, Binary}, p = <<Naught, c>>
      PROVE  p \in Seq(Chars) /\ Len(p) = 2 /\ p[1] = Naught /\ p[2] = c
    BY <1>1, <1>3
<1>4. ASSUME p = <<Naught>>
      PROVE  p \in Seq(Chars) /\ Len(p) = 1 /\ p[1] = Naught
    BY <1>1, <1>4
<1>5. p = EmptyText => p \in Seq(Chars) /\ Len(p) = 0
    BY EmptyTextType
<1>6. {2, 8, 10, 16} \subseteq Radixes
    BY DEF Radixes
<1>7. /\ p \in Seq(Chars) /\ Len(p) \in 0..2 /\ r \in Radixes
      /\ Len(p) = 2 => /\ p[1] = Naught
                       /\ \/ p[2] = Hex /\ r = 16
                          \/ p[2] = Octal /\ r = 8
                          \/ p[2] = Binary /\ r = 2
      /\ Len(p) = 1 => p[1] = Naught /\ r = 8
      /\ Len(p) = 0 => p = EmptyText /\ r = 10
    <2>1. CASE p = <<Naught, Hex>> /\ r = 16
        <3>1. p \in Seq(Chars) /\ Len(p) = 2 /\ p[1] = Naught /\ p[2] = Hex
            BY <1>3, <2>1
        <3> QED BY <1>6, <2>1, <3>1
    <2>2. CASE p = <<Naught, Octal>> /\ r = 8
        <3>1. p \in Seq(Chars) /\ Len(p) = 2 /\ p[1] = Naught /\ p[2] = Octal
            BY <1>3, <2>2
        <3> QED BY <1>6, <2>2, <3>1
    <2>3. CASE p = <<Naught, Binary>> /\ r = 2
        <3>1. p \in Seq(Chars) /\ Len(p) = 2 /\ p[1] = Naught /\ p[2] = Binary
            BY <1>3, <2>3
        <3> QED BY <1>6, <2>3, <3>1
    <2>4. CASE p = <<Naught>> /\ r = 8
        BY <1>4, <1>6, <2>4
    <2>5. CASE p = EmptyText /\ r = 10
        BY <1>5, <1>6, <2>5
    <2> QED BY <1>2, <2>1, <2>2, <2>3, <2>4, <2>5
<1> QED BY <1>7 DEF p, r

\* A text that is spelled is divided as it is spelled.
LEMMA SpelledBased ==
    ASSUME NEW text \in Seq(Chars), NEW sign, NEW prefix, NEW digits,
           SpelledAs(text, sign, prefix, digits)
    PROVE  /\ Based(Unsigned(text), prefix[2], Len(prefix[1]))
           /\ digits = From(Unsigned(text), Len(prefix[1]) + 1)
           /\ digits \in Seq(Chars) /\ digits # EmptyText /\ AreDigits(digits, prefix[2])
           /\ sign = <<Minus>> <=> IsNegative(text)
<1> DEFINE p == prefix[1]
           r == prefix[2]
           v == p \o digits
<1>1. /\ sign \in Signs /\ prefix \in Prefixes
      /\ text = sign \o p \o digits /\ AreDigits(digits, r)
      /\ r = 10 /\ Len(digits) > 1 => digits[1] # Naught
    BY DEF SpelledAs
<1>2. digits \in Seq(Chars) /\ Len(digits) \in Nat /\ Len(digits) >= 1
    <2>1. PICK i \in DOMAIN text : digits = From(text, i)
        BY DEF SpelledAs
    <2> DEFINE l == i - 1
    <2>2. l \in 0..Len(text) /\ l + 1 = i /\ Len(text) - l >= 1
        OBVIOUS
    <2> HIDE DEF l
    <2>3. From(text, l + 1) \in Seq(Chars) /\ Len(From(text, l + 1)) = Len(text) - l
        BY <2>2, FromFacts
    <2> QED BY <2>1, <2>2, <2>3
<1>3. sign \in Seq(Chars) /\ Len(sign) \in {0, 1}
      /\ (Len(sign) = 1 => sign[1] \in {Plus, Minus})
      /\ (sign = <<Minus>> <=> Len(sign) = 1 /\ sign[1] = Minus)
      /\ (Len(sign) = 0 => sign = EmptyText)
    BY <1>1, SignTexts
<1>4. /\ p \in Seq(Chars) /\ Len(p) \in 0..2 /\ r \in Radixes
      /\ Len(p) = 2 => /\ p[1] = Naught
                       /\ \/ p[2] = Hex /\ r = 16
                          \/ p[2] = Octal /\ r = 8
                          \/ p[2] = Binary /\ r = 2
      /\ Len(p) = 1 => p[1] = Naught /\ r = 8
      /\ Len(p) = 0 => p = EmptyText /\ r = 10
    BY <1>1, PrefixTexts
<1> HIDE DEF p, r
<1>5. /\ v \in Seq(Chars) /\ Len(v) = Len(p) + Len(digits)
      /\ \A i \in 1..Len(p) : v[i] = p[i]
      /\ \A j \in 1..Len(digits) : v[Len(p) + j] = digits[j]
    BY <1>2, <1>4, ConcatFacts
<1>6. From(v, Len(p) + 1) = digits
    BY <1>2, <1>4, JoinFacts
<1>7. text = sign \o v
    BY <1>1, <1>2, <1>3, <1>4, ConcatAssociative
<1> HIDE DEF v
<1>8. IsDigit(digits[1], r)
    <2>1. 1 \in DOMAIN digits
        BY <1>2
    <2> QED BY <1>1, <2>1 DEF AreDigits
<1>9. /\ digits[1] \notin {Plus, Minus, Hex, Octal}
      /\ r <= 10 => digits[1] # Binary
    BY <1>4, <1>8, DigitFacts
<1>10. Len(v) >= 1 /\ Len(v) \in Nat /\ v[1] \notin {Plus, Minus}
    <2>1. CASE Len(p) = 0
        <3>1. v[1] = digits[1]
            <4>1. 1 \in 1..Len(digits) /\ Len(p) + 1 = 1
                BY <1>2, <2>1
            <4>2. v[Len(p) + 1] = digits[1]
                BY <1>5, <4>1
            <4> QED BY <4>1, <4>2
        <3> QED BY <1>2, <1>5, <1>9, <2>1, <3>1
    <2>2. CASE Len(p) # 0
        <3>1. 1 \in 1..Len(p) /\ p[1] = Naught
            BY <1>4, <2>2
        <3>2. v[1] = Naught
            BY <1>5, <3>1
        <3>3. Len(v) >= 1 /\ Len(v) \in Nat
            BY <1>2, <1>4, <1>5
        <3> QED BY <3>2, <3>3, CharFacts
    <2> QED BY <2>1, <2>2
<1>11. Len(text) = Len(sign) + Len(v)
       /\ (\A i \in 1..Len(sign) : text[i] = sign[i])
       /\ (\A j \in 1..Len(v) : text[Len(sign) + j] = v[j])
       /\ From(text, Len(sign) + 1) = v
    BY <1>3, <1>5, <1>7, ConcatFacts, JoinFacts
<1>12. text # EmptyText
    BY <1>3, <1>10, <1>11, EmptyTextType
<1>13. Len(sign) = 1 => text[1] = sign[1]
    <2>1. Len(sign) = 1 => 1 \in 1..Len(sign)
        BY <1>3
    <2> QED BY <1>11, <2>1
<1>14. Len(sign) = 0 => text[1] = v[1]
    <2>1. 1 \in 1..Len(v) /\ (Len(sign) = 0 => Len(sign) + 1 = 1)
        BY <1>10
    <2>2. text[Len(sign) + 1] = v[1]
        BY <1>11, <2>1
    <2> QED BY <2>1, <2>2
<1>15. SignLength(text) = Len(sign)
    <2>1. SignLength(text) \in {0, 1} /\ (SignLength(text) = 1 <=> text[1] \in {Plus, Minus})
        BY <1>12, SignLengthFacts
    <2>2. CASE Len(sign) = 1
        <3>1. text[1] \in {Plus, Minus}
            BY <1>3, <1>13, <2>2
        <3> QED BY <2>1, <2>2, <3>1
    <2>3. CASE Len(sign) = 0
        <3>1. text[1] \notin {Plus, Minus}
            BY <1>10, <1>14, <2>3
        <3> QED BY <2>1, <2>3, <3>1
    <2> QED BY <1>3, <2>2, <2>3
<1>16. Unsigned(text) = v
    <2>1. Unsigned(text) = From(text, SignLength(text) + 1)
        BY <1>12, SignLengthFacts
    <2> QED BY <1>11, <1>15, <2>1
<1>17. sign = <<Minus>> <=> IsNegative(text)
    <2>1. IsNegative(text) <=> text[1] = Minus
        BY <1>12, SignFacts
    <2> QED BY <1>3, <1>10, <1>13, <1>14, <2>1
<1>18. Based(v, r, Len(p))
    <2>1. CASE Len(p) = 2
        <3>1. v[1] = p[1] /\ v[2] = p[2] /\ Len(v) >= 2
            BY <1>2, <1>5, <2>1
        <3> QED BY <1>4, <2>1, <3>1 DEF Based
    <2>2. CASE Len(p) = 1
        <3>1. v[1] = p[1] /\ Len(v) >= 2
            BY <1>2, <1>5, <2>2
        <3>2. v[2] = digits[1]
            <4>1. 1 \in 1..Len(digits) /\ Len(p) + 1 = 2
                BY <1>2, <2>2
            <4>2. v[Len(p) + 1] = digits[1]
                BY <1>5, <4>1
            <4> QED BY <4>1, <4>2
        <3>3. r = 8 /\ p[1] = Naught
            BY <1>4, <2>2
        <3>4. v[2] \notin {Hex, Octal, Binary}
            BY <1>9, <3>2, <3>3
        <3> QED BY <2>2, <3>1, <3>3, <3>4 DEF Based
    <2>3. CASE Len(p) = 0
        <3>1. r = 10
            BY <1>4, <2>3
        <3>2. v[1] = digits[1] /\ Len(v) = Len(digits)
            <4>1. 1 \in 1..Len(digits) /\ Len(p) + 1 = 1
                BY <1>2, <2>3
            <4>2. v[Len(p) + 1] = digits[1]
                BY <1>5, <4>1
            <4> QED BY <1>2, <1>5, <2>3, <4>1, <4>2
        <3>3. Len(v) >= 2 => v[1] # Naught
            BY <1>1, <1>2, <3>1, <3>2
        <3> QED BY <2>3, <3>1, <3>3 DEF Based
    <2> QED BY <1>4, <2>1, <2>2, <2>3
<1>19. digits # EmptyText
    BY <1>2, EmptyTextType
<1> QED BY <1>1, <1>2, <1>6, <1>16, <1>17, <1>18, <1>19 DEF p, r

\* A text that is divided spells its number.
LEMMA BasedSpelled ==
    ASSUME NEW text \in Seq(Chars), NEW radix, NEW before,
           Based(Unsigned(text), radix, before),
           NEW digits \in Seq(Chars), digits = From(Unsigned(text), before + 1),
           digits # EmptyText, AreDigits(digits, radix)
    PROVE  Signed(text, ValueOf(digits, radix)) \in Spelled(text)
<1> DEFINE v == Unsigned(text)
           k == SignLength(text)
           sign == SubSeq(text, 1, k)
           p == SubSeq(v, 1, before)
<1>1. text # EmptyText
    BY FirstCharacter
<1>2. k \in 0..Len(text) /\ k \in {0, 1} /\ (k = 1 <=> text[1] \in {Plus, Minus})
      /\ v = From(text, k + 1) /\ v \in Seq(Chars)
      /\ Len(v) = Len(text) - k /\ Len(text) \in Nat
    BY <1>1, SignLengthFacts
<1>3. Based(v, radix, before) /\ digits = From(v, before + 1)
    OBVIOUS
<1>4. IsNegative(text) <=> text[1] = Minus
    BY <1>1, SignFacts
<1> HIDE DEF v, k
<1>5. before \in 0..Len(v) /\ before \in 0..2
    BY <1>2, <1>3, BaseType
<1>6. text = sign \o v /\ v = p \o digits
    <2>1. text = SubSeq(text, 1, k) \o From(text, k + 1)
        BY <1>2, FromFacts
    <2>2. v = SubSeq(v, 1, before) \o From(v, before + 1)
        BY <1>2, <1>5, FromFacts
    <2> QED BY <1>2, <1>3, <2>1, <2>2
<1>7. Len(digits) = Len(v) - before /\ Len(digits) >= 1 /\ Len(digits) \in Nat
      /\ \A j \in 1..(Len(v) - before) : digits[j] = v[before + j]
    <2>1. Len(digits) >= 1 /\ Len(digits) \in Nat
        BY DEF EmptyText
    <2>2. v \in Seq(Chars) /\ before \in 0..Len(v)
        BY <1>2, <1>5
    <2>3. /\ Len(From(v, before + 1)) = Len(v) - before
          /\ \A j \in 1..(Len(v) - before) : From(v, before + 1)[j] = v[before + j]
        BY <2>2, FromFacts
    <2>4. digits = From(v, before + 1)
        BY <1>3
    <2> HIDE DEF sign, p
    <2> QED BY <2>1, <2>3, <2>4
<1>8. sign \in Signs /\ sign \in Seq(Chars) /\ (sign = <<Minus>> <=> IsNegative(text))
    <2>1. Plus # Minus /\ Len(<<Minus>>) = 1
        BY CharFacts
    <2>2. CASE k = 0
        <3>1. sign = EmptyText
            BY <2>2 DEF EmptyText
        <3>2. text[1] # Minus
            BY <1>2, <2>2
        <3> HIDE DEF sign
        <3> QED BY <1>4, <2>1, <3>1, <3>2, SignsFacts, EmptyTextType
    <2>3. CASE k = 1
        <3>1. SubSeq(text, 1, 1) = <<text[1]>>
            <4>1. Len(text) >= 1
                BY <1>2, <2>3
            <4> QED BY <4>1, FirstAlone
        <3>2. sign = <<text[1]>> /\ text[1] \in {Plus, Minus}
            BY <1>2, <2>3, <3>1
        <3>3. sign \in Seq(Chars)
            BY <1>2
        <3> HIDE DEF sign
        <3>4. <<Plus>> # <<Minus>>
            BY <2>1
        <3> QED BY <1>4, <2>1, <3>2, <3>3, <3>4, SignsFacts
    <2> QED BY <1>2, <2>2, <2>3
<1>9. p \in Seq(Chars)
    BY <1>2, <1>5
<1>10. text = sign \o p \o digits
    <2>1. sign \in Seq(Chars)
        BY <1>8
    <2> HIDE DEF sign, p
    <2>2. sign \o p \o digits = sign \o (p \o digits)
        BY <1>9, <2>1, ConcatAssociative
    <2>3. sign \o v = sign \o (p \o digits)
        BY <1>6, Zenon
    <2>4. text = sign \o v
        BY <1>6, Zenon
    <2> QED BY <2>2, <2>3, <2>4, Zenon
<1>11. \E i \in DOMAIN text : digits = From(text, i)
    <2>1. From(From(text, k + 1), before + 1) = From(text, k + before + 1)
        BY <1>2, <1>5, FromFrom
    <2>2. k + before + 1 \in DOMAIN text
        BY <1>2, <1>5, <1>7
    <2> QED BY <1>2, <1>3, <2>1, <2>2
<1>12. \E prefix \in Prefixes : prefix[1] = p /\ prefix[2] = radix
    <2>1. ASSUME NEW c \in {Hex, Octal, Binary}, before = 2, v[1] = Naught, v[2] = c
          PROVE  p = <<Naught, c>>
        <3>1. Len(v) >= 2
            BY <1>5, <2>1
        <3>2. StartsWith(v, <<Naught, c>>)
            BY <1>2, <2>1, <3>1, StartsFacts
        <3>3. Len(<<Naught, c>>) = 2
            OBVIOUS
        <3> QED BY <2>1, <3>2, <3>3 DEF StartsWith
    <2>2. ASSUME before = 1, v[1] = Naught PROVE p = <<Naught>>
        <3>1. SubSeq(v, 1, 1) = <<v[1]>>
            <4>1. Len(v) >= 1
                BY <1>2, <1>5, <2>2
            <4> QED BY <1>2, <4>1, FirstAlone
        <3> QED BY <2>2, <3>1
    <2>3. before = 0 => p = EmptyText
        BY DEF EmptyText
    <2> HIDE DEF p
    <2>4. \E q : q \in Prefixes /\ q = <<p, radix>>
        <3>1. CASE before = 2 /\ v[2] = Hex /\ radix = 16
            BY <1>3, <2>1, <3>1, PrefixExists DEF Based
        <3>2. CASE before = 2 /\ v[2] = Octal /\ radix = 8
            BY <1>3, <2>1, <3>2, PrefixExists DEF Based
        <3>3. CASE before = 2 /\ v[2] = Binary /\ radix = 2
            BY <1>3, <2>1, <3>3, PrefixExists DEF Based
        <3>4. CASE before = 1
            BY <1>3, <2>2, <3>4, PrefixExists DEF Based
        <3>5. CASE before = 0
            BY <1>3, <2>3, <3>5, PrefixExists DEF Based
        <3> QED BY <1>3, <3>1, <3>2, <3>3, <3>4, <3>5 DEF Based
    <2>5. <<p, radix>>[1] = p /\ <<p, radix>>[2] = radix
        OBVIOUS
    <2> QED BY <2>4, <2>5
<1>13. radix = 10 /\ Len(digits) > 1 => digits[1] # Naught
    <2> SUFFICES ASSUME radix = 10, Len(digits) > 1 PROVE digits[1] # Naught
        OBVIOUS
    <2>1. before = 0 /\ (Len(v) >= 2 => v[1] # Naught)
        BY <1>3 DEF Based
    <2>2. 1 \in 1..(Len(v) - before) /\ Len(v) >= 2 /\ before + 1 = 1
        BY <1>2, <1>5, <1>7, <2>1
    <2>3. digits[1] = v[before + 1]
        BY <1>7, <2>2
    <2> QED BY <2>1, <2>2, <2>3
<1> HIDE DEF sign, p
<1>14. PICK prefix \in Prefixes : prefix[1] = p /\ prefix[2] = radix
    BY <1>12
<1>15. SpelledAs(text, sign, prefix, digits)
    BY <1>8, <1>10, <1>11, <1>13, <1>14 DEF SpelledAs
<1>16. Signed(text, ValueOf(digits, radix)) =
           IF sign = <<Minus>> THEN -ValueOf(digits, prefix[2]) ELSE ValueOf(digits, prefix[2])
    BY <1>8, <1>14 DEF Signed
<1> QED BY <1>15, <1>16, SpelledFacts

\* A number that is spelled, in both places.
LEMMA SpelledAgree ==
    ASSUME NEW text \in Seq(Chars), NEW number \in Spelled(text),
           NEW marked \in Seq(Chars), Plain(marked) = text, marked # EmptyText => marked[1] # Mark
    PROVE  /\ ParseGoInt(text) = Fitting(number)
           /\ IntField(marked) = Fitting(number) \/ Rounded(IntField(marked), number)
<1>1. PICK sign, prefix, digits :
          /\ SpelledAs(text, sign, prefix, digits)
          /\ number = IF sign = <<Minus>> THEN -ValueOf(digits, prefix[2])
                      ELSE ValueOf(digits, prefix[2])
    BY SpelledFacts
<1> DEFINE radix == prefix[2]
           before == Len(prefix[1])
<1>2. /\ Based(Unsigned(text), radix, before)
      /\ digits = From(Unsigned(text), before + 1)
      /\ digits \in Seq(Chars) /\ digits # EmptyText /\ AreDigits(digits, radix)
      /\ sign = <<Minus>> <=> IsNegative(text)
    BY <1>1, SpelledBased
<1>3. number = Signed(text, ValueOf(digits, radix))
    BY <1>1, <1>2 DEF Signed
<1> HIDE DEF radix, before
<1>4. radix \in Radixes
    BY <1>2, UnsignedType, BaseType
<1>5. \A i \in 1..Len(digits) : digits[i] # Mark
    <2> TAKE i \in 1..Len(digits)
    <2>1. i \in DOMAIN digits
        BY <1>2
    <2>2. IsDigit(digits[i], radix)
        BY <1>2, <2>1 DEF AreDigits
    <2> QED BY <1>4, <2>2, DigitFacts
<1>6. Plain(digits) = digits
    BY <1>2, <1>5, PlainAlready
<1>7. UnderscoresOk(digits, before + 1 > 1)
    <2>1. DOMAIN digits = 1..Len(digits)
        BY <1>2
    <2>2. \A i \in DOMAIN digits : digits[i] # "_"
        BY <1>5, <2>1 DEF Mark
    <2> QED BY <2>2, Zenon DEF UnderscoresOk
<1>8. ParseGoInt(text) = Fitting(number)
    <2>1. ParseGoInt(text) =
              IF UnderscoresOk(From(Unsigned(text), before + 1), before + 1 > 1)
                 /\ FromStrRadix(Plain(From(Unsigned(text), before + 1)), radix) # Invalid
              THEN Fitting(Signed(text, FromStrRadix(Plain(From(Unsigned(text), before + 1)), radix)))
              ELSE Invalid
        BY <1>2, GoIntReads, Zenon
    <2>2. ParseGoInt(text) =
              IF UnderscoresOk(digits, before + 1 > 1) /\ FromStrRadix(digits, radix) # Invalid
              THEN Fitting(Signed(text, FromStrRadix(digits, radix))) ELSE Invalid
        BY <1>2, <1>6, <2>1, Zenon
    <2>3. ParseGoInt(text) =
              IF FromStrRadix(digits, radix) # Invalid
              THEN Fitting(Signed(text, FromStrRadix(digits, radix))) ELSE Invalid
        BY <1>7, <2>2, Zenon
    <2> QED BY <1>2, <1>3, <1>4, <2>3, RadixReads
<1>9. IntField(marked) = Fitting(number) \/ Rounded(IntField(marked), number)
    <2>1. text # EmptyText /\ (text[1] \in {Plus, Minus} \/ IsDigit(text[1], 10))
        BY <1>2, FirstCharacter
    <2>2. marked # EmptyText
        BY <2>1, PlainOfEmpty
    <2>3. marked[1] = text[1]
        BY <2>2, PlainFirst
    <2>4. marked[1] \in {Plus, Minus} \/ IsDigit(marked[1], 10)
        BY <2>1, <2>3
    <2> QED BY <1>2, <1>3, <2>2, <2>4, FieldReads
<1> QED BY <1>8, <1>9

\* A number that the flags read, underscores and all, in the file.
LEMMA FlagsAgree ==
    ASSUME NEW text \in Seq(Chars), ParseGoInt(text) # Invalid
    PROVE  IntField(text) = ParseGoInt(text) /\ ParseGoInt(text) \in Spelled(Plain(text))
<1> DEFINE plain == Plain(text)
<1>1. PICK radix \in Radixes, before \in 0..Len(Unsigned(text)) :
          Based(Unsigned(text), radix, before)
    BY UnsignedType, BaseExists
<1> DEFINE raw == From(Unsigned(text), before + 1)
           digits == Plain(raw)
           magnitude == FromStrRadix(digits, radix)
<1>2. raw \in Seq(Chars) /\ digits \in Seq(Chars) /\ plain \in Seq(Chars)
    <2>1. Unsigned(text) \in Seq(Chars)
        BY UnsignedType
    <2>2. before \in 0..Len(Unsigned(text))
        BY <1>1, <2>1, BaseType
    <2>3. raw \in Seq(Chars)
        BY <2>1, <2>2, FromFacts
    <2> HIDE DEF raw
    <2> QED BY <2>3, PlainType
<1>3. ParseGoInt(text) =
          IF UnderscoresOk(raw, before + 1 > 1) /\ magnitude # Invalid
          THEN Fitting(Signed(text, magnitude)) ELSE Invalid
    BY <1>1, GoIntReads, Zenon
<1>p. raw = From(Unsigned(text), before + 1) /\ digits = Plain(raw) /\ plain = Plain(text)
    OBVIOUS
<1> HIDE DEF raw, digits, plain
<1>4. UnderscoresOk(raw, before + 1 > 1) /\ magnitude # Invalid
      /\ ParseGoInt(text) = Fitting(Signed(text, magnitude))
    BY <1>3
<1>5. digits # EmptyText /\ AreDigits(digits, radix) /\ magnitude = ValueOf(digits, radix)
    BY <1>1, <1>2, <1>4, FromStrFacts
<1>6. /\ text # EmptyText /\ plain # EmptyText /\ text[1] = plain[1]
      /\ Based(Unsigned(plain), radix, before)
      /\ digits = From(Unsigned(plain), before + 1)
    BY <1>1, <1>2, <1>4, <1>5, <1>p, PlainBased
<1>7. Signed(plain, magnitude) = Signed(text, magnitude)
    <2>1. IsNegative(plain) <=> IsNegative(text)
        BY <1>2, <1>6, SignFacts
    <2> QED BY <2>1 DEF Signed
<1>8. text[1] \in {Plus, Minus} \/ IsDigit(text[1], 10)
    <2>1. plain[1] \in {Plus, Minus} \/ IsDigit(plain[1], 10)
        <3>1. plain \in Seq(Chars) /\ digits \in Seq(Chars) /\ Based(Unsigned(plain), radix, before)
            BY <1>2, <1>6
        <3>2. digits = From(Unsigned(plain), before + 1) /\ digits # EmptyText /\ AreDigits(digits, radix)
            BY <1>5, <1>6
        <3> QED BY <3>1, <3>2, FirstCharacter
    <2> QED BY <1>6, <2>1
<1>9. \/ IntField(text) = Fitting(Signed(plain, ValueOf(digits, radix)))
      \/ ~IsI64(Signed(plain, ValueOf(digits, radix)))
    BY <1>2, <1>5, <1>6, <1>8, <1>p, FieldReads
<1>10. Fitting(Signed(plain, ValueOf(digits, radix))) = ParseGoInt(text)
    BY <1>4, <1>5, <1>7
<1>11. ParseGoInt(text) = Signed(plain, ValueOf(digits, radix))
       /\ IsI64(Signed(plain, ValueOf(digits, radix)))
    BY <1>10 DEF Fitting
<1>12. Signed(plain, ValueOf(digits, radix)) \in Spelled(plain)
    BY <1>2, <1>5, <1>6, BasedSpelled
<1> QED BY <1>9, <1>10, <1>11, <1>12, <1>p

LEMMA TextsAgree ==
    ASSUME NEW text \in Seq(Chars)
    PROVE  LiteralsAgree(text)
<1>1. ASSUME Spelled(Plain(text)) # {}, Head(text) # "_"
      PROVE  LET number == CHOOSE n \in Spelled(Plain(text)) : TRUE
                 read == IF IsI64(number) THEN number ELSE Invalid
             IN  /\ Plain(text) = text => ParseGoInt(text) = read
                 /\ \/ IntField(text) = read
                    \/ IntField(text) = LeastI64 /\ number \in RoundToLeast
    <2> DEFINE number == CHOOSE n \in Spelled(Plain(text)) : TRUE
    <2>1. number \in Spelled(Plain(text))
        BY <1>1
    <2> HIDE DEF number
    <2>2. text # EmptyText => text[1] # Mark
        <3>1. text # EmptyText => Head(text) = text[1]
            BY DEF EmptyText
        <3> QED BY <1>1, <3>1 DEF Mark
    <2>3. Plain(text) \in Seq(Chars)
        BY PlainType
    <2>4. /\ ParseGoInt(Plain(text)) = Fitting(number)
          /\ IntField(text) = Fitting(number) \/ Rounded(IntField(text), number)
        BY <2>1, <2>2, <2>3, SpelledAgree
    <2> QED BY <2>4 DEF number, Fitting, Rounded
<1>2. ParseGoInt(text) # Invalid =>
          IntField(text) = ParseGoInt(text) /\ ParseGoInt(text) \in Spelled(Plain(text))
    BY FlagsAgree
<1> QED BY <1>1, <1>2 DEF LiteralsAgree

LEMMA SeqOfMore ==
    ASSUME NEW S, NEW T
    PROVE  \A s \in Seq(S) : s \in Seq(S \cup T)
OBVIOUS

\* For literals of any length, any width of an integer and any precision of a
\* float: what the flags read the file reads as well, it is what was spelled, and
\* what does not fit is refused, but for the numbers that the file rounds to the
\* least i64.
THEOREM NumbersAgree ==
    Spec => []NumbersMeanTheSame
<1>1. Init => ScheduleInv
    BY DEF Init, ScheduleInv
<1>2. ScheduleInv => NumbersMeanTheSame
    <2> SUFFICES ASSUME ScheduleInv, file.interval # NoValue
                 PROVE  LiteralsAgree(file.interval)
        BY DEF NumbersMeanTheSame
    <2>1. file.interval \in Seq(STRING)
        BY InputsAssumption DEF ScheduleInv
    <2>2. file.interval \in Seq(Chars)
        BY <2>1, SeqOfMore, Zenon DEF Chars
    <2> QED BY <2>2, TextsAgree, Zenon
<1> QED BY <1>1, <1>2, ScheduleStep, PTL DEF Spec
=============================================================================
