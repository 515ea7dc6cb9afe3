# awtrix-controller: TLA+ models, checks and proofs

awtrix-controller is one Rust process that runs an embedded MQTT broker, to which AWTRIX 3 pixel
clocks connect. It pushes display settings (day/night theme, energy saving, weather overlay),
weather warnings and scheduled notifications to them. This directory models the part of the program
that decides *what is sent to whom and when*: the concurrency of the broker hook, the event
dispatch and the schedule, the time and calendar arithmetic, the weather logic, and the life of the
process from its command line to its exit code. Paths below are relative to `src/`.

## 1. Inventory

| Component | State | Operations | Module |
|---|---|---|---|
| broker hook, `src/broker/hook.rs` | `connections` (current session per client ID, ready mark), `closing` | authenticate, connected, published (stats, currentApp), disconnected | `ControllerHook`, `Presence` |
| client registry, `src/clientstate/mod.rs` | one entry per registered device | register, unregister, update_stats, update_current_app, connected_ids | `ControllerHook`; its snapshot in `Dispatch`, `Notification`, `Weather` |
| failure reporting, `src/state.rs` | first reported error, poisoned locks, schedule token | `checked`, `report` | in every composed module |
| main loop, `src/run/mod.rs` | event queue, one task per event, overlay | handle event, push to one or all, replay, stop | `Dispatch`, `Lifecycle` |
| settings builder, `src/settings/mod.rs` | none (reads the controllers) | build, publish | `Dispatch`, `Payload` |
| scheduler and clock, `src/scheduler`, `src/clock` | one task per job, wall and monotonic time | schedule_at, fire, reschedule, cancel, resolve_local, next_local_midnight | `Scheduler`, `LocalTime` |
| energy saving, `src/energysaving` | `active`, armed instant | start, transition, reschedule | `EnergySaving` |
| day/night mode, `src/daynight` | `mode`, armed instant | start, transition, reschedule | `DayNight` |
| scheduled notifications, `src/notification` | armed instant per entry | next occurrence, action, reschedule | `Notification` |
| weather mapping and events, `src/weather/mapping`, `events` | none (pure) | select_overlay, detect_events | `WeatherEvents`, `Forecasts` |
| weather fetch and simulation, `src/weather/fetch`, `simulate` | none | parse_raw, synthetic_forecast | `Forecasts` |
| weather state and controller, `src/weather/state`, `controller` | state per event type, kept batch, overlay | poll, process, publish, replay on connect | `Weather` |
| configuration, `src/config` | none after start | decode, defaults, validate, entries to keep | `Config`, `Literals` |
| command line, `src/cli` | none after start | single-dash scan, flags, literals, test notification | `Cli`, `Literals`, `TestNotification` |
| payload models, `src/model` | none | what is left out, what is merged | `Payload`, `TestNotification` |
| logger, `src/logger` | the level | resolve_level, effective_level | `Logger` |
| broker life and process, `src/broker/mod.rs`, `src/main.rs` | listeners, sessions, broker thread, deadline | start, bind, serve, publish, stop_accepting, shutdown, exit | `Lifecycle` |

Not modelled: the text fragments, drawing commands, stats and effect names of `src/model`; wording,
layout and format of the log, and the version text; the HTTP request and the JSON and YAML libraries;
and the repository's own checks and packaging (section 6 says why).

How the parts interact. The rmqtt broker calls the hook on its own threads; the hook updates the
registry and sends `DeviceConnected`/`DeviceReady` events over an unbounded channel. Day/night and
energy saving run as jobs of the scheduler and send an event that pushes to all devices after they
change. The main loop takes events one at a time, with a biased `select!` that
prefers stopping, and runs each in a task of its own; these tasks read the controllers' state one
lock at a time, and publish through the broker. The weather job publishes directly, to a snapshot of
the registry. Any part may report a failure; the first one cancels the schedule and ends the loop.

What is hard to test here:

- two sessions of one client ID in the hook at once (takeover), between its separate lock sections;
- event tasks that build settings in one order and publish them in another;
- a device that registers after a snapshot was taken, or becomes ready while a warning is published;
- local times that do not exist or occur twice, a wall clock set back, and jobs that fire late;
- months without the 31st, 29 February, an event at the very instant that fired;
- rounding of event starts across polls, and memory of what was already notified;
- partial payloads: a field that is left out keeps what the device had, and a zero that was given
  looks like a value that was not;
- measurements that are missing, as null, as -999 or as a short array;
- a start that fails between two listeners;
- shutdown against sessions that never leave and a broker thread that never ends.

`PROJECT.json` lists each such hazard at its line, with the properties that cover it.

## 2. Modules and their correspondence to the code

`PROJECT.json` ("map") gives the source lines of each definition. The conventions are the same in
all modules: an action is one section between two points where another task can run (a lock
section, an `await`, a callback), and `failed`, `poisoned` stand for the failure state and the
poisoned mutexes of `src/state.rs`.

**ControllerHook.** A session walks through the handlers with a program counter `pc[s]`:
`Authenticate`, `Connected`/`Insert`/`Register`/`OnConnected`, `Published` with
`UpdateStats`/`MarkReady`/`OnDeviceReady` or `UpdateCurrentApp`, and
`Disconnected`/`RemoveIfCurrent`/`Unregister`. `connections` is the mutex-protected map; `clients`
is the registry; `announced` and `readied` count the callbacks. `Poison(lock)` makes any later locking
fail through `StateFailed`. *Assumed of rmqtt*: it awaits each hook; connects of one client ID are
serialised; a takeover does not wait for the old session's disconnect hook.

**Presence** is what the hook promises the rest of the process: devices are registered, perhaps
anew, and unregistered in single steps, and each registration is followed by one `on_connected` callback
before the next one of that client. It has two variables and three actions. `ControllerHook`
implements it (`P == INSTANCE Presence`, with the registry and the clients whose callback is due,
`Announcing`, as the mapping), and `Dispatch` takes its devices from the same actions: it assumes no more
of them than the hook was shown to guarantee. Of sessions, locks, closing and poisoning it knows nothing.

**Dispatch.** `mode`, `saving`, `overlay` are the controllers' values, `queue` the channel, and each
task in `Handlers` runs one event: `Snapshot`/`NextClient` (push to all), `ReadOverlay`/
`ReadSaving`/`Publish` (the three reads of `build()` and the publish), `Replay`/`Notify`. Devices come
and go by the actions of `Presence`; a push to a device that is mid-takeover is an ordinary one. The weather
poll (`Poll`) is a task of its own that pushes after `SetOverlay`. `sent`, `retained` and `lost`
record what devices were sent, the broker's retained message, and refused publishes; a refusal is forgotten
with the next change and the next connect, so no loss is excused for longer than that.

**Payload** is `src/model`'s serialisation: each field has the rule its `skip_serializing_if` names,
`Serialized` leaves out what the rule omits, and `Merged` is the firmware (external), which keeps what is not
in a payload. `Build` is `Builder::build` field by field. `Dispatch` puts the retained settings through
both.

**LocalTime, Scheduler, EnergySaving, DayNight, Notification.** Time is an integer; a day has `Day`
units. A zone has an offset that changes at one instant, and `ResolveLocal` is the code's
use of jiff with the `Compatible` rule (a skipped time moves forward by the gap, a repeated one is
its first occurrence). `Scheduler` is one job: `ScheduleAt` turns the wall-clock delay into a
monotonic sleep; `Tick` advances both clocks, `StepBack` only the wall clock; `Fire` runs the action
up to `MaxLate` units late, `Rearm` reschedules. The three controllers extend it with their start,
action and next instant. `EnergySaving` keeps the bounded search of eight days, `DayNight` the
retry on polar days, `Notification` the four kinds of schedule with their clamping of days to
short months. The sunrise crate is external: a sun is a table of sunrise and sunset per date.

**WeatherEvents, Forecasts, Weather.** `WeatherEvents` holds the detectors, the overlay and the
fingerprints as operators on sequences of forecast steps. `Forecasts` builds the answers of the
service array by array, with nulls, illegible times, the mark -999 and arrays that end early, turns them into
a forecast as `ParseRaw` does, and checks the operators on it; `Simulate` is the forecast of
`--weather-wmo`.
`Weather` is the controller: `StartPoll`, `FetchDone`/`FetchFailed`/`FetchCancelled`, `SetOverlay`,
`Process`, `Store`, `NextCandidate`, `PublishNext`, `PublishedAll`, and per device `Register`,
`DeviceReady`, `Replay`, `ReplayNext`, `Unregister`.

**Config, Literals, Cli, TestNotification, Logger, Lifecycle.** `Config` has the boolean spellings, the
validation in the code's order, the defaults and the rule that keeps or drops an entry. `Literals` is the integer decoding of the
file and of the flags (base prefixes, underscores, overflow, floats that are rounded to the nearest one, ties to even, and
truncated), with the reference `Spelled` to compare with; `Cli` is the scan for single-dash long options and clap as the
flags declare it; `TestNotification` is the payload that the `--test-notification-*` flags describe, one
flag for each type of field; `Logger` is the level from flag, variable or default, with offsets, and
the filter for it. `Lifecycle` composes them: flags, load, modes, broker, its thread's set-up (`Bind` one
listener after the other, `Serve`, `BrokerStarted`), controllers, loop, then
the shutdown (`EndLoop`, `Kicked`, `Drained`, `Collected`, `Exit`) against a deadline, with devices that
connect and leave, and an exit code.

## 3. Runs

| Run | Instance | Checks |
|---|---|---|
| `hook` | 1 device, 2 sessions, any lock poisoned at any time | `HookInv`, `NoGhostDevice`, `ReadyIsOwnAndOnce`, `OnlyOverlapUnregisters`, `StatsLeadToReady`, `ProvidesPresence` |
| `hook_takeover` (violation) | the same | `RegisteredWhileCurrent` |
| `dispatch` | 1 device, 2 handlers and the poll, 1 change, 2 connects (takeovers too), 1 fault, 2 of these in all | `DispatchInv`, `SentWhenQuiescent`, `RetainedIsSelfContained`, `PushesCatchUp` |
| `dispatch_retained` (violation) | 2 changes, no faults | `RetainedWhenQuiescent` |
| `energy` | days of 6 units, four days, each start and end time, zones with gap and fold, 1 unit late, 1 step back | `AgreesWithRestart`, `BoundaryFound`, `CivilTimesResolve`, `MidnightIsNextDay`, `DueAdvances` |
| `daynight` | suns that match the zone, polar days included | `AgreesWithRestart`, `DueAdvances` |
| `daynight_eastern` (violation) | a sun whose sunrise falls on the previous local date | `DueAdvances` |
| `forecasts` | answers of up to 2 steps around every threshold, each measurement missing, simulated forecasts of 6 codes | `OverlayIgnoresOrder`, `OverlaysAreWarned`, `StableUntilStart`, `MissingIsNotZero` |
| `weather_poll` | 1 device, 2 connects, 1 fault, 3 polls | `WarningsReachEveryDevice`, `BatchIsTheLatest`, `NeverOverdue`, `WarningsAreRetold`, `OverlayIsShown` |
| `weather_repeat` (violation) | one lasting event, repeat interval of 4 polls | `NotNotifiedMoreOften` |
| `notification` | days of 4 units, weeks of 3 days, years of 2 months, short months, 2 devices | `FiresOnEachDate`, `YearOfTheOccurrence`, `NoDeviceLeftOut` |
| `lifecycle` | command lines of up to 3 arguments, test notifications of up to 2 flags, literals of up to 4 characters, levels at every limit, 2 sessions, 2 listeners, budget 2, grace 1 | `ExitsInTime`, `FailedStartMeetsNoDevice`, `NoJobOutlivesTheRun`, `KeptEntriesAreScheduled`, `ScanAgreesWithClap`, `NumbersMeanTheSame`, `FlagsReachTheDevice`, `LogsWhatSlogWould`, `FailureGivesCode2`, `StopEndsTheRun` |

Why these bounds. The hook keeps one entry per client ID and client IDs do not interact, so two
sessions of one device hold every overlap (the theorems cover the rest). In `dispatch`, two handlers
and the poll are the fewest tasks whose reads and publishes cross in all orders, and one change is
what one push must catch; more of each is the theorem's. A day of 6 units leaves room for a window
that crosses midnight, one that falls in a gap, and one that is empty; four days exceed the search
that a non-empty window needs. The little calendar has months of unequal length, two years, and a
day that only some months have. Weather bounds give one poll before, at and after the repeat
interval and the stale limit. In `Literals`, `Width` 5 and `Precision` 4 stand for the 64 bits of an
integer and the 53 of a float's significand: what matters is that literals and level offsets reach both
sides of each limit, and that a literal just below the least integer has that integer as its nearest float
(-17 does, -18 does not). `MaxTroubles` bounds connects and faults together in `dispatch`: either
two connects (a takeover, a reconnect), or one and a fault. Most runs say `CHECK_DEADLOCK FALSE`, since a bounded model, or a
process that has ended, stops.

Fairness. `hook`: weak fairness of each session's handler steps, because rmqtt awaits every hook it
has entered; no device is obliged to do anything. `dispatch`: weak fairness of the controllers'
signal after a change, the announcement of a device that has registered, the loop's handling and its
stop on a failure, and each running task: tokio runs every spawned task, and the loop polls its
`select!`. `lifecycle`: weak fairness of start-up, of the broker thread's set-up, of
shutdown and of time. The set-up binds local ports and has nothing to wait for, and the start cannot be
stopped while it waits for it: the stop is only looked at in the loop. After that devices and the broker
thread owe nothing, which is what the deadline is for. `ProvidesPresence` has the weak fairness of the
callback after a registration, which follows from that of the handlers. All other runs check safety only.

Each property of a passing run has a mutant in `PROJECT.json`: a plausible mistake in the code
(a dropped guard, a missing reset, an early return in a loop) for which TLC finds it violated.
The mutated forms stand beside the definitions they replace and nothing else uses them.

## 4. What the runs show

The passing runs show that the properties above hold on these instances. What they say of the code,
where a test would hardly reach:

- the hook's interleavings, with any lock poisoned at any time, look to the rest of the process like single
  registrations, each announced once (`ProvidesPresence`), and `Dispatch` is checked and proved on
  top of just that;
- the settings that a device has last got are complete: whatever it missed or got out of order, the colours,
  the brightness and the overlay are those of that payload, because every field that the controller
  manages is sent even when it is false or none, but for the brightness, which is left out only beside an
  automatic one (`RetainedIsSelfContained`; a plain bool for `ABRI` would break it);
- a device that becomes ready after a batch of warnings was replaced is ignorant of an event of that batch,
  but only until its repeat interval has passed (`WarningsAreRetold`);
- a missing measurement never makes an event, or a more severe or an earlier one (`MissingIsNotZero`);
- a zero on the command line reaches the device where its own default is another value
  (`FlagsReachTheDevice`), and every level with an offset lets through the records slog would have written
  (`LogsWhatSlogWould`);
- when the second listener cannot be bound, no device has been let in by the first
  (`FailedStartMeetsNoDevice`), since they are served only once both are there.

The four
`violation` runs show where the code and its own comments, tests or documents disagree:

1. `hook_takeover`: `disconnected` checks that its session is current and removes it under one lock,
   then unregisters the client without it. A takeover that registers in between is unregistered,
   against the comment at `src/broker/hook.rs:69-71`. `OnlyOverlapUnregisters` shows, and a
   theorem proves, that this overlap is the only way for it to happen.
2. `dispatch_retained`: two pushes that build in one order and publish in the other leave stale
   settings on the device and in the retained message until the next change. What does hold is
   `SentWhenQuiescent`: the current settings were sent, though not necessarily last.
3. `daynight_eastern`: where the zone does not match the longitude, tomorrow's sunrise may be the
   instant that just fired, and the reschedule returns it again. In the matching zones of the
   `daynight` run the due instants always advance.
4. `weather_repeat`: an event that has begun gets a new fingerprint every half hour and is
   notified again within `notification_repeat_minutes`. Until it begins its fingerprint is stable
   (`StableUntilStart`).

Noticed while reading, without a run: `README.md:122-124` promises exit code 1 for an invalid
configuration, but an invalid energy-saving time or a port out of range is found later and exits
with 2; `README.md:125` promises an exit within 2 seconds, and the grace adds 100 ms; a
notification batch kept for later devices is replaced by the next one, against the comment at
`src/weather/controller/mod.rs:335-336`; `--help -config` exits with 1, since the scan
comes before clap; in America/Nuuk, whose clocks go from 23:00 to midnight in spring, 23:30 of that night
is shifted to 00:30 of the next date, where nobody looks for it: an energy-saving window that ends at 23:30
then differs from what a restart would compute, against `src/energysaving/mod.rs:32-33`, and a notification
at 23:30 is not fired by a process started within that half hour (the proofs rest on a named assumption
that excludes such zones, `GapAssumption`); and `-9_223_372_036_854_775_809`, or the same number in quotes, is
refused by the flags and read by the file as the least integer: what overflows is parsed once more as a float,
rounded to the nearest one, and the range is checked after that (`src/config/lenient.rs:98`, `158-171`). The
latter is what `NumbersMeanTheSame` allows, for the numbers of `RoundToLeast` only (in 64 bits, down to
-2^63 - 1024); no document denies it, so that it is no `violation` run.

## 5. Proofs

TLAPS proves these for every value of the constants that the named assumptions admit: any number of
devices, sessions, tasks, entries and arguments, any zone, calendar, sun, interval and threshold.

| Module | Theorems | Argument |
|---|---|---|
| `ControllerHookProofs` | `HookInvariant`, `NoGhost`, `ReadyOnce`, `OnlyOverlap`, `HookImplementsPresence` | `HookInv` is inductive. Beyond the properties it says that one session of a client connects at a time, that an entry belongs to a session past its insertion, that callbacks follow the connect, that a ready mark stays until its session ends, and that a registration is kept until the owner's removal. Without these a handler's second lock section could act on an entry that is not its own. The refinement: initial states map to initial states, and each step of the hook is a step of `Presence` or changes neither the registry nor the callbacks that are due; that a registration finds none due needs the invariant that one session of a client connects at a time. |
| `DispatchProofs` | `DispatchInvariant`, `SettingsSent`, `RetainedSuffices` | `PendingOrSent`: each connected device either was sent the current settings, lost a push, or has a push pending (an event in the queue, a signal to come, a device to announce, a task that has not yet read the part that changed) which will include it. When all is quiet nothing is pending, so it was sent. `RetainedSuffices` goes field by field through the skip rules: for every theme and overlay, merging a built payload into whatever the device had gives the same managed fields. |
| `ClockProofs` | (lemmas) | What a zone with one change does to local time (a time that is skipped is shifted by the gap, one that is repeated is the first; dates do not go back though times may; the next midnight begins the next date), and what the steps of the scheduler preserve. The next three modules rest on it. |
| `EnergySavingProofs` | `TypeInvariant`, `SearchSucceeds`, `DueInstantsAdvance`, `RunningAgreesWithRestart`, `CivilTimesAlwaysResolve`, `MidnightAlwaysNextDay` | The zone assumption (one change, of less than a day) bounds how many windows in a row can be empty, so that the search meets a non-empty one within its eight days; its boundary lies after the instant it starts from. `JobInv` adds that the armed instant is the next boundary after the one that fired last, and that the state is the one read there: no boundary lies between, so what a restart would compute now is what the state says. |
| `DayNightProofs` | `SunEventsAdvance`, `ModeAgreesWithRestart` | The same for the sun: where each sunrise falls on its own local date (`SunRises`), what is armed lies after the instant that fired, and where each sunset does too (`SunSets`), the mode holds until it. |
| `NotificationProofs` | `FiresOnEveryDate`, `NamesTheYear`, `NobodyLeftOut` | `Complete`: for each of the four kinds of schedule, the dates that are searched include the earliest matching one whose time is still to come; so `NextOccurrence` skips none (`NextOccurrenceFacts`). `NotifierInv` carries that from one firing to the next, with the year of the instant that fired. `HeardOrPending`: each device of the snapshot heard the message, refused it, left, or is still to come; at the end none is. |
| `WeatherProofs` | `WeatherInvariant`, `WarningsReach`, `WarningsRetold`, `LatestKept`, `RepeatsInTime`, `OverlayShown`; `ForecastsInvariant`, `OverlayOrder`, `OverlaysWarned`, `StartIsStable`, `MissingNotZero` | `WeatherInv` follows the phases of a poll. Each warning of the kept batch, and the last one of each event, has been told to a device, was refused, or is on its way: the poll has yet to publish it, or a replay has it in hand (`BatchReaches`, `LastWarningReaches`). The rest of the invariant says what makes these inductive: times are in order, a poll has one candidate of a type, and an event that is due was seen since. The candidates are a set, taken by `Rank` in the order in which the code lists them. For the forecasts, of any length and in any order: the fold of select_overlay is shown to return the strongest overlay within its horizon (`SelectStrongest`), which the steps determine whatever their order; an event starts with its earliest step and has the severity of its worst one within the horizon (`EventFacts`), so that a later poll keeps the start; a code that shows an overlay makes its candidate (`CodesOfOverlays`, `SeverityOfCodes`); and a detector is monotone in what is missing (`MissingLowers`). `ForecastsInv` says that the forecast is a sequence of steps of numbers and nulls, parsed from the answer or simulated. |
| `LifecycleProofs` | `ShutdownBounded`, `EveryExitCancels`, `NoDeviceBeforeTheStart`, `EveryKeptEntryScheduled`, `LogsAsSlog`, `ScanSeesWhatClapSees`, `TestNotificationShown`, `NumbersAgree` | `Deadlines` relates each shutdown phase to the time it may still use; `JobsAccounted` says that jobs exist only while the schedule's token is uncancelled; `BrokerInv`, that nothing is served before all listeners are bound. The log filter is compared with slog's level by cases on the threshold. For the command line, the scan and clap are two recursive readings of the same arguments; `ScanSkipsValues` says that they agree on which flag takes the next argument, and from the last position to the first so do their results (`Agrees`). For the numbers, of any length, in integers of any width: the parser of the flags and that of the file choose the same base and digits, since leaving out the underscores keeps the sign and the prefix (`PlainBased`), and those are the base and digits that were spelled (`SpelledBased`, `BasedSpelled`). What overflows an i64 the file refuses, or reads as the least i64 if it is at most half a step between floats below it: with a prefix it is no float at all; a decimal float of the same digits is the float nearest to that number, which reaches the limit where the number does, and equals it from below only within that half step (`HalfEvenFacts`, `NearestFloatFacts`); and an octal number read again as a decimal is no smaller (`OctalIsLess`, `FloatFitsNotEither`). |

Induction over the positions of a command line, or the digits of a number, is done by a least
counterexample (`LeastNat`, from the well-foundedness of `<`; `Upward`), and a recursive function is shown to
exist before it is unfolded (`ReadingExists`, `RecursionExists`).

Model-checked only: liveness (`ProvidesPresence`, whose steps but not its fairness are proved to be those of
`Presence`; `StatsLeadToReady`, `PushesCatchUp`, `FailureGivesCode2`, `StopEndsTheRun`), since the prover has no
rules for fairness; and the runs that expect a violation.

## 6. Assumptions and abstractions

- Payloads are abstracted to what the properties tell apart: a settings or notification payload to its
  fields, each unset, zero or something else, with one field for each type in `TestNotification`; a warning
  to its type and the poll that made it; a scheduled notification to its year.
- The firmware is external: it keeps the settings that a payload leaves out, and for a notification
  it has defaults of its own (`DeviceDefaults`, from the comments of `src/model/notification.rs`).
- rmqtt accepts or refuses a publish; a client that was refused counts as `lost`.
- clap behaves as the flags are declared; the YAML library resolves plain numbers to the value that
  they spell. Letters are case-folded.
- `parse::<f64>` returns the nearest float, ties to even (`NearestFloat`). Its exponent has no limits in the
  model: a float too large or too small for an f64 is out of an i64's range, or truncated to zero, in either.
  A float has fewer bits than an integer (`LiteralsAssumption`). The rounding of other floats, such as a
  coordinate or a measurement, is not modelled.
- The devices of a broadcast are walked in any order, though the code sorts them: more behaviours than it has.
- `OverlayIsShown` is about the overlay in the settings builder; that devices get what is in it is what
  `Dispatch` is about. The wall clock of `Weather` is not set back (that of the scheduled jobs is).
- Zones have one change, shorter than a day (`LocalTimeAssumption`). No midnight lies inside the hour that
  a change skips or repeats (`MidnightAssumption`), and a skipped time is shifted within its own date
  (`GapAssumption`; America/Nuuk is the exception, see section 4). The calendar starts before the first
  instant and offsets are less than a day (`CalendarAssumption`).
- The sunrise and the sunset of a date fall on that local date (hypotheses of the day/night theorems). This
  holds where the zone matches the longitude, and not for a midsummer sunset after midnight, as in
  Reykjavik; the run `daynight_eastern` shows what happens otherwise.
- The entries of a file have different names and its integers are texts (`InputsAssumption`), and an argument such as `-log-level=debug` has
  its "=" among its characters (`ArgumentsAssumption`). Values that stand for "none" or "unset" are none
  of the others (`PayloadAssumption`, `BuildAssumption`, `ThemeAssumption`, `NoBatchAssumption`), nor an
  overlay. The measurements, times and codes of a forecast are integers or null (`ForecastsAssumption`). TLC
  evaluates every one of these assumptions on the instances of the runs.
- `AgreesWithRestart` is stated for jobs that are not both late and on a clock that was set back.
- The queue of events is unbounded in the code; `MaxChanges`, `MaxConnects` and `MaxFaults` bound
  what can enter it. `MaxSteps`, `MaxLate`, `MaxTime`, `LastInstant` bound time.

Not modelled, and why: text fragments, drawing commands and the names of effects are values that are only
passed on; stats are stored and logged and nothing is decided from them; the log's wording, its
format and the version are text; HTTP, TLS, JSON and YAML are libraries, and their outcome (an answer, an error,
a value) is what the models start from; MQTT itself (subscriptions, QoS, the retainer) is
rmqtt's; `meta`, CI and packaging are not part of the running program.

## 7. Plan

Order: the hook and the dispatch first (the concurrency that decides what devices see), then time
and schedules, weather, the life of the process, and the data at its edges (payloads, forecasts, flags,
levels). All of these exist, and every safety property of a passing run is proved. What is left is
liveness, which stays with TLC, and the parts named above as not modelled.
