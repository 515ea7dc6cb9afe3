---------------------------- MODULE Lifecycle -----------------------------
(***************************************************************************)
(* The run from the flags to the exit code (src/src/run/mod.rs, main.rs)   *)
(* and the life of the broker (src/src/broker/mod.rs).  What happens while *)
(* the main loop serves events is in Dispatch; here are the ways into it   *)
(* and out of it.                                                          *)
(*                                                                         *)
(* Phases of the run:                                                      *)
(*   "flags", "load", "modes", "broker", "controllers"  the start          *)
(*   "setup"       in Broker::start, waiting for the broker thread         *)
(*   "running"     the main loop                                           *)
(*   "kicking"     in Broker::shutdown, kick_all is running                *)
(*   "draining"    ... waiting for no sessions                             *)
(*   "collecting"  ... waiting for the broker thread                       *)
(*   "returned"    run_with_options has returned                           *)
(*   "exited"      the process has exited                                  *)
(***************************************************************************)
EXTENDS Config, TestNotification, Logger

CONSTANTS
    Inputs,    \* the command lines, the environment and the configuration files
    Sessions,  \* the network sessions that may ever exist
    Budget,    \* SHUTDOWN_BUDGET
    Grace,     \* SHUTDOWN_GRACE
    NoCode     \* "no exit code yet"

ASSUME LifecycleAssumption ==
    /\ Budget \in Nat
    /\ Grace \in Nat
    /\ NoCode \notin Nat

\* The arguments are of the shape that Cli describes; a cluster with an "="
\* spells it among its characters.
ASSUME ArgumentsAssumption ==
    /\ \A input \in Inputs :
          /\ input.args \in Seq(Arguments)
          /\ \A i \in DOMAIN input.args :
                input.args[i].dashes = 1 /\ input.args[i].eq =>
                    "=" \in {input.args[i].chars[k] : k \in DOMAIN input.args[i].chars}
    /\ Unset \notin Int \cup BOOLEAN \cup Seq(STRING) \cup {MissingValue, Invalid}

\* The entries of a file are told apart by their names; its integers are texts.
ASSUME InputsAssumption ==
    /\ NoValue \notin Yes \cup No
    /\ Midnight \notin {Empty, Malformed}
    /\ \A f \in {input.file : input \in Inputs} : \A e \in f.entries :
          /\ {"name", "repeat", "weekdays", "day", "date", "time", "enabled"} \subseteq DOMAIN e
          /\ \A other \in f.entries : other.name = e.name => other = e
    /\ \A input \in Inputs : input.file.interval \in Seq(STRING) \cup {NoValue}

VARIABLES
    phase,
    file,       \* the configuration file
    args,       \* the command line
    env,        \* AWTRIX_LOG_LEVEL, Invalid when it is not set
    code,       \* the exit code, once decided
    jobs,       \* the scheduler's jobs
    cancelled,  \* the components' cancellation token, which the jobs obey
    failure,    \* a fatal failure has been reported
    stop,       \* SIGINT, SIGTERM or the shutdown token
    thread,     \* the broker thread: "none", "starting", "serving", "stopping", "finished"
    bound,      \* the listeners it has bound
    closing,    \* ControllerHook.closing
    listening,  \* the server future runs
    session,    \* "none", "authenticated", "live" or "gone"
    kicks,      \* the sessions kick_all is kicking; NoValue before it has listed them
    elapsed,    \* the time since the shutdown started
    expires     \* when the timeout of the current step of the shutdown expires

startVars == <<file, args, env>>
brokerVars == <<thread, bound, closing, listening, session, kicks>>
timeVars == <<elapsed, expires>>
vars == <<phase, startVars, code, jobs, cancelled, failure, stop, brokerVars, timeVars>>

Live == {s \in Sessions : session[s] = "live"}

Init ==
    /\ phase = "flags"
    /\ \E input \in Inputs : args = input.args /\ env = input.env /\ file = input.file
    /\ code = NoCode
    /\ jobs = {}
    /\ cancelled = FALSE
    /\ failure = FALSE
    /\ stop = FALSE
    /\ thread = "none"
    /\ bound = {}
    /\ closing = FALSE
    /\ listening = FALSE
    /\ session = [s \in Sessions |-> "none"]
    /\ kicks = NoValue
    /\ elapsed = 0
    /\ expires = 0

---------------------------------------------------------------------------
(* The start. *)

Goto(p) == phase' = p

\* Mutant of Early: the token is not cancelled.
EarlyUnguarded(c) ==
    /\ code' = c
    /\ Goto("returned")
    /\ UNCHANGED cancelled

\* An exit before the loop, with no deadline.  The drop guard of start()
\* cancels the components.
Early(c) ==
    /\ code' = c
    /\ Goto("returned")
    /\ cancelled' = (phase \in {"modes", "broker", "setup"})

Proceed(p) ==
    /\ Goto(p)
    /\ UNCHANGED <<code, cancelled>>

\* run_with_options: the single-dash long form and what clap refuses are
\* errors, the help and the version a success.
ParseFlags ==
    /\ phase = "flags"
    /\ LET refused == SingleDashLongForm(args) # 0 \/ Clap(args).result = "invalid"
           informs == Clap(args).result = "help" \/ Clap(args).version = TRUE
       IN  \/ refused /\ Early(1)
           \/ ~refused /\ informs /\ Early(0)
           \/ ~refused /\ ~informs /\ Proceed("load")
    /\ UNCHANGED <<startVars, jobs, failure, stop, brokerVars, timeVars>>

\* The file cannot be read or decoded, or is invalid, or names an unknown
\* zone: exit code 1.
Load(readable) ==
    /\ phase = "load"
    /\ IF /\ readable /\ Decodes(file)
          /\ Violation(file) = NoError /\ IsZone(Validated(file).timezone)
       THEN Proceed("modes")
       ELSE Early(1)
    /\ UNCHANGED <<startVars, jobs, failure, stop, brokerVars, timeVars>>

\* start_modes: day/night is scheduled before the energy-saving window is read.
StartModes ==
    /\ phase = "modes"
    /\ IF IsTimeOfDay(Validated(file).start) /\ IsTimeOfDay(Validated(file).end)
       THEN jobs' = {<<"daynight">>, <<"energysaving">>} /\ Proceed("broker")
       ELSE jobs' = {<<"daynight">>} /\ Early(2)
    /\ UNCHANGED <<startVars, failure, stop, brokerVars, timeVars>>

\* start_broker: the ports are in range, and Broker::start spawns the thread.
StartBroker ==
    /\ phase = "broker"
    /\ LET config == Validated(file)
       IN  IF IsPort(config.port) /\ (config.wsPort = NoValue \/ IsPort(config.wsPort))
           THEN thread' = "starting" /\ Proceed("setup")
           ELSE UNCHANGED thread /\ Early(2)
    /\ UNCHANGED <<startVars, jobs, failure, stop, bound, closing, listening, session,
                   kicks, timeVars>>

\* The listeners of the configuration, in the order set_up binds them.
Listeners == IF Validated(file).wsPort = NoValue THEN <<"tcp">> ELSE <<"tcp", "ws">>

\* set_up binds the next listener, or fails, and the thread ends: what it has
\* bound is dropped.
Bind(succeeds) ==
    /\ thread = "starting" /\ Cardinality(bound) < Len(Listeners)
    /\ IF succeeds
       THEN bound' = bound \cup {Listeners[Cardinality(bound) + 1]} /\ UNCHANGED thread
       ELSE bound' = {} /\ thread' = "finished"
    /\ UNCHANGED <<phase, startVars, code, jobs, cancelled, failure, stop, closing,
                   listening, session, kicks, timeVars>>

\* Mutant of Serve: a listener is served as soon as it is bound.
ServeEach ==
    /\ thread = "starting" /\ bound # {}
    /\ thread' = IF Cardinality(bound) = Len(Listeners) THEN "serving" ELSE thread
    /\ listening' = TRUE
    /\ UNCHANGED <<phase, startVars, code, jobs, cancelled, failure, stop, bound, closing,
                   session, kicks, timeVars>>

\* ... all are bound, the server is spawned and the thread reports.
Serve ==
    /\ thread = "starting" /\ Cardinality(bound) = Len(Listeners)
    /\ thread' = "serving"
    /\ listening' = TRUE
    /\ UNCHANGED <<phase, startVars, code, jobs, cancelled, failure, stop, bound, closing,
                   session, kicks, timeVars>>

\* Broker::start has the report of the thread.
BrokerStarted ==
    /\ phase = "setup"
    /\ \/ thread = "serving" /\ Proceed("controllers")
       \/ thread = "finished" /\ Early(2)
    /\ UNCHANGED <<startVars, jobs, failure, stop, brokerVars, timeVars>>

\* start_notifications, and the weather if it is enabled.
StartControllers ==
    /\ phase = "controllers"
    /\ jobs' = jobs \cup (UNION {JobsOf(e) : e \in Validated(file).entries})
                    \cup (IF Validated(file).weather THEN {<<"weather">>} ELSE {})
    /\ Proceed("running")
    /\ UNCHANGED <<startVars, failure, stop, brokerVars, timeVars>>

---------------------------------------------------------------------------
(* While it runs. *)

\* Failures::report, by a component that found its state poisoned; the hook
\* closes the broker first.
Report(byHook) ==
    /\ thread = "serving" /\ ~failure
    /\ failure' = TRUE
    /\ cancelled' = TRUE
    /\ closing' = (closing \/ byHook)
    /\ UNCHANGED <<phase, startVars, code, jobs, stop, thread, bound, listening,
                   session, kicks, timeVars>>

\* The server future ends by itself, which is only logged.
ServerStops ==
    /\ listening
    /\ listening' = FALSE
    /\ UNCHANGED <<phase, startVars, code, jobs, cancelled, failure, stop, thread,
                   bound, closing, session, kicks, timeVars>>

Stop ==
    /\ ~stop
    /\ stop' = TRUE
    /\ UNCHANGED <<phase, startVars, code, jobs, cancelled, failure, brokerVars, timeVars>>

\* A device is let in: not by a server that is closed or by a hook that is
\* closing.
Authenticate(s) ==
    /\ listening /\ ~closing
    /\ session[s] = "none"
    /\ session' = [session EXCEPT ![s] = "authenticated"]
    /\ UNCHANGED <<phase, startVars, code, jobs, cancelled, failure, stop, thread,
                   bound, closing, listening, kicks, timeVars>>

\* rmqtt lists the session, a moment later, closing or not.
Enter(s) ==
    /\ thread \in {"serving", "stopping"}
    /\ session[s] = "authenticated"
    /\ session' = [session EXCEPT ![s] = "live"]
    /\ UNCHANGED <<phase, startVars, code, jobs, cancelled, failure, stop, thread,
                   bound, closing, listening, kicks, timeVars>>

\* The device leaves, or answers its kick, or rmqtt gives up waiting for the
\* answer (after five seconds, longer than the budget).
Leave(s) ==
    /\ session[s] \in {"authenticated", "live"}
    /\ session' = [session EXCEPT ![s] = "gone"]
    /\ kicks' = IF kicks = NoValue THEN NoValue ELSE kicks \ {s}
    /\ UNCHANGED <<phase, startVars, code, jobs, cancelled, failure, stop, thread,
                   bound, closing, listening, timeVars>>

---------------------------------------------------------------------------
(* The shutdown. *)

\* Mutant of Remaining: each step gets the whole budget.
FullBudget == Budget

\* What is left until the deadline.
Remaining == IF elapsed < Budget THEN Budget - elapsed ELSE 0

\* Mutant of EndLoop: a stop is looked at before a failure.
EndLoopStopFirst ==
    /\ phase = "running"
    /\ failure \/ stop
    /\ code' = IF stop THEN 0 ELSE 2
    /\ cancelled' = TRUE
    /\ closing' = TRUE
    /\ listening' = FALSE
    /\ expires' = elapsed + Remaining
    /\ Goto("kicking")
    /\ UNCHANGED <<startVars, jobs, failure, stop, thread, bound, session, kicks, elapsed>>

\* The biased select ends the loop; the components are cancelled, and
\* Broker::shutdown refuses new devices, closes the listeners and spawns
\* kick_all.
EndLoop ==
    /\ phase = "running"
    /\ failure \/ stop
    /\ code' = IF failure THEN 2 ELSE 0
    /\ cancelled' = TRUE
    /\ closing' = TRUE
    /\ listening' = FALSE
    /\ expires' = elapsed + Remaining
    /\ Goto("kicking")
    /\ UNCHANGED <<startVars, jobs, failure, stop, thread, bound, session, kicks, elapsed>>

\* kick_all lists the sessions there are, and kicks them all at once.
ListSessions ==
    /\ phase \in {"kicking", "draining"} /\ kicks = NoValue
    /\ kicks' = Live
    /\ UNCHANGED <<phase, startVars, code, jobs, cancelled, failure, stop, thread,
                   bound, closing, listening, session, timeVars>>

Expired == elapsed >= expires

\* Every kick is answered, or there is no time left for it.
Kicked ==
    /\ phase = "kicking"
    /\ kicks = {} \/ Expired
    /\ expires' = elapsed + Remaining
    /\ Goto("draining")
    /\ UNCHANGED <<startVars, code, jobs, cancelled, failure, stop, brokerVars, elapsed>>

\* Mutant of Drained: the sessions are waited for without a timeout.
DrainedForever ==
    /\ phase = "draining"
    /\ Live = {}
    /\ thread' = "stopping"
    /\ expires' = elapsed + Remaining + Grace
    /\ Goto("collecting")
    /\ UNCHANGED <<startVars, code, jobs, cancelled, failure, stop, bound, closing, listening,
                   session, kicks, elapsed>>

\* No session is left, or no time: the broker thread is asked to stop.
Drained ==
    /\ phase = "draining"
    /\ Live = {} \/ Expired
    /\ thread' = "stopping"
    /\ expires' = elapsed + Remaining + Grace
    /\ Goto("collecting")
    /\ UNCHANGED <<startVars, code, jobs, cancelled, failure, stop, bound, closing, listening,
                   session, kicks, elapsed>>

\* The broker thread has shut its runtime down, which drops every session.
ThreadFinishes ==
    /\ thread = "stopping"
    /\ thread' = "finished"
    /\ session' = [s \in Sessions |-> "gone"]
    /\ UNCHANGED <<phase, startVars, code, jobs, cancelled, failure, stop, bound, closing,
                   listening, kicks, timeVars>>

\* The thread is collected, or left behind; run_until_exit has what is left for
\* the tasks of the run.
Collected ==
    /\ phase = "collecting"
    /\ thread = "finished" \/ Expired
    /\ expires' = elapsed + Remaining
    /\ Goto("returned")
    /\ UNCHANGED <<startVars, code, jobs, cancelled, failure, stop, brokerVars, elapsed>>

\* run_until_exit: the tasks are done or their time is up, the process exits
\* and takes the broker with it.
Exit ==
    /\ phase = "returned"
    /\ Goto("exited")
    /\ session' = [s \in Sessions |-> "gone"]
    /\ thread' = IF thread = "none" THEN "none" ELSE "finished"
    /\ UNCHANGED <<startVars, code, jobs, cancelled, failure, stop, bound, closing, listening,
                   kicks, timeVars>>

\* Time passes; a timeout that has expired is acted upon first.
Tick ==
    /\ phase \in {"kicking", "draining", "collecting", "returned"}
    /\ elapsed < expires
    /\ elapsed' = elapsed + 1
    /\ UNCHANGED <<phase, startVars, code, jobs, cancelled, failure, stop, brokerVars, expires>>

Start ==
    \/ ParseFlags
    \/ \E readable \in BOOLEAN : Load(readable)
    \/ StartModes
    \/ StartBroker
    \/ BrokerStarted
    \/ StartControllers

SetUp == (\E succeeds \in BOOLEAN : Bind(succeeds)) \/ Serve

Shutdown == EndLoop \/ Kicked \/ Drained \/ Collected \/ Exit

Device(s) == Authenticate(s) \/ Enter(s) \/ Leave(s)

Next ==
    \/ Start
    \/ SetUp
    \/ \E byHook \in BOOLEAN : Report(byHook)
    \/ ServerStops
    \/ Stop
    \/ \E s \in Sessions : Device(s)
    \/ Shutdown
    \/ ListSessions
    \/ ThreadFinishes
    \/ Tick

Spec == Init /\ [][Next]_vars

\* The run goes on, time passes and the broker thread sets its server up.  After
\* that neither the thread nor the devices have to do anything.
FairSpec ==
    /\ Spec
    /\ WF_vars(Start) /\ WF_vars(SetUp)
    /\ WF_vars(Shutdown) /\ WF_vars(Tick)

---------------------------------------------------------------------------
(* Properties. *)

\* The scan for Go's single-dash long form sees the command line as clap does:
\* where clap would accept it, no value of another flag is refused, and no
\* flag in that form gets through to be read as a cluster of short ones.
ScanAgreesWithClap ==
    LET refused == SingleDashLongForm(args)
        values == {i + 1 : i \in {j \in Clap(args).flags : NeedsNext(args[j])}}
    IN  Clap(args).result # "invalid" =>
            /\ refused \notin values
            /\ refused = 0 => \A i \in Clap(args).flags :
                                 ~IsSingleDashLong(args[i])

\* A number is the same on the command line and in the file, whatever its base
\* and its underscores.  One that does not fit an i64 is refused by the flags,
\* and by the file too, though it reads the text once more as a decimal float:
\* only those just below the least i64 round to it, and are read as that one.
NumbersMeanTheSame == file.interval # NoValue => LiteralsAgree(file.interval)

\* A test notification is shown as the command line asks for it: a field that
\* was given has the last value given for it, also where that is the zero of
\* its type and the device's own default is another one, and a field that was
\* not given, or not legibly, has the device's default.
FlagsReachTheDevice == phase = "load" => ShownAsGiven(Given(args))

\* The log has the records slog would have written at the level that was asked
\* for, by the flag or else by the variable, whatever its offset; what cannot
\* be read, or does not fit, asks for info.
LogsWhatSlogWould ==
    phase = "load" =>
        \A flag \in {IF "log-level" \in DOMAIN given THEN given["log-level"] ELSE Invalid :
                       given \in {Given(args)}} :
            LET asked == CASE flag # Invalid -> flag
                           [] flag = Invalid /\ env \notin {Invalid, <<>>} -> env
                           [] OTHER -> <<"info">>
            IN  \A record \in DOMAIN SlogLevels :
                    Writes(EffectiveLevel(flag, env), record) <=> SlogWrites(asked, record)

\* The shutdown ends by its deadline and the grace for the broker thread,
\* though sessions do not answer their kick, sessions let in before it appear
\* after kick_all listed them, or the thread hangs.
ExitsInTime == elapsed <= Budget + Grace

\* The inductive form: each step's timeout ends with the deadline, only the
\* last one after it.
Deadlines ==
    /\ elapsed \in Nat
    /\ expires \in Nat
    /\ expires <= Budget + Grace
    /\ elapsed <= Budget + Grace
    /\ phase \notin {"collecting", "returned", "exited"} =>
          elapsed <= Budget /\ expires <= Budget

\* A start that fails has let no device in, though one listener may be bound
\* before the other one fails: the device would be dropped without a kick, and
\* the process exits.
FailedStartMeetsNoDevice ==
    phase = "returned" /\ ~closing => \A s \in Sessions : session[s] = "none"

\* However the run ends, early or not, no job is left that could fire: one
\* whose controller is dropped would be rescheduled for the same instant.
NoJobOutlivesTheRun ==
    phase \in {"returned", "exited"} /\ jobs # {} => cancelled

\* The inductive form: what was scheduled is cancelled from the end of the
\* loop, or of the start, on.
JobsAccounted ==
    /\ phase \in {"flags", "load", "modes"} => jobs = {}
    /\ phase \in {"kicking", "draining", "collecting"} => cancelled
    /\ NoJobOutlivesTheRun

\* What the configuration keeps, the notifier schedules, every weekday of it
\* ("the configuration has already rejected them", notification/mod.rs), and
\* nothing of an entry that is switched off, however that is spelled.
KeptEntriesAreScheduled ==
    phase = "running" =>
        \A e \in file.entries :
            LET names == IF e.repeat = "weekly" THEN e.weekdays ELSE {""}
                all == {<<"scheduled", e.name, n>> : n \in names}
            IN  /\ e.enabled \notin No /\ Keeps(e) => all \subseteq jobs
                /\ e.enabled \in No => all \cap jobs = {}

\* A failure reported while the loop runs gives exit code 2, also when a stop
\* is requested at the same time.
FailureGivesCode2 ==
    (failure /\ phase = "running") ~> (phase = "exited" /\ code = 2)

\* A stop ends the run, whatever the devices and the broker thread do.
StopEndsTheRun == stop ~> (phase = "exited")
===========================================================================
