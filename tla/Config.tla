------------------------------ MODULE Config ------------------------------
(***************************************************************************)
(* What src/src/config/mod.rs makes of a configuration file that parses as *)
(* YAML, and the parsers the components use on the values it passes on.    *)
(* Strings are abstracted to what the checks tell apart: Malformed is one  *)
(* that no parser takes, a time of day or a date is the record of its      *)
(* numbers.                                                                *)
(***************************************************************************)
EXTENDS Integers, FiniteSetsExt, Literals

CONSTANTS
    NoValue,    \* Option::None, an absent key or a null
    Empty,      \* an empty string, where times and dates are expected
    Malformed,  \* a value of the wrong form
    NoError     \* the file is valid

\* --- The parsers (time_of_day.rs, timezone.rs). ---

\* TimeOfDay::from_str
IsTimeOfDay(value) ==
    value \notin {Empty, Malformed} /\ value.hour < 24 /\ value.minute < 60

DaysInMonth == <<31, 29, 31, 30, 31, 30, 31, 31, 30, 31, 30, 31>>

\* MonthDay::from_str
IsMonthDay(value) ==
    /\ value \notin {Empty, Malformed}
    /\ value.month \in DOMAIN DaysInMonth
    /\ value.day \in 1..DaysInMonth[value.month]

\* load_time_zone
IsZone(name) == name \in {"", "UTC", "Local", "Europe/Berlin"}

\* parse_weekday takes any case, the configuration lower case only.
Weekdays == {"monday", "tuesday", "wednesday", "thursday", "friday", "saturday", "sunday"}
IsWeekday(name) == name \in Weekdays \cup {"Monday"}

\* --- validate(). ---

\* non_zero_or and non_empty_or: what is absent, zero or empty takes the default.
NonZeroOr(value, default) == IF value \in {NoValue, 0} THEN default ELSE value
NonEmptyOr(value, default) == IF value = Empty THEN default ELSE value

\* theme_colors: an empty colour takes the default.
IsColor(value) == value \in {"", "#RRGGBB"}

\* threshold and positive_or_default, when they fail.
OutOfRange(value) == value # NoValue /\ (value = Malformed \/ value < 0)
NotPositive(value) == NonZeroOr(value, 1) <= 0

\* An integer field, absent or given (lenient::int).
Int64(value) == IF value = NoValue THEN NoValue ELSE IntField(value)

\* A boolean field (lenient::boolean): YAML's own spellings, and YAML 1.1's in
\* the three cases they are given in.
Yes == {"true", "True", "TRUE", "y", "Y", "yes", "Yes", "YES", "on", "On", "ON"}
No == {"false", "False", "FALSE", "n", "N", "no", "No", "NO", "off", "Off", "OFF"}

IsBoolean(value) == value = NoValue \/ value \in Yes \cup No
BooleanOr(value, default) == IF value = NoValue THEN default ELSE value \in Yes

\* The file decodes; "interval" stands for its integers.
Decodes(file) ==
    /\ Int64(file.interval) # Invalid
    /\ IsBoolean(file.weather) /\ \A entry \in file.entries : IsBoolean(entry.enabled)

\* The checks, in their order; "interval" stands for the weather's intervals
\* and "level" for its thresholds.
Checks(file) ==
    << [fails |-> file.username = "",          error |-> "MqttUsernameRequired"],
       [fails |-> file.password = "",          error |-> "MqttPasswordRequired"],
       [fails |-> file.latitude = NoValue,     error |-> "LatitudeRequired"],
       [fails |-> file.longitude = NoValue,    error |-> "LongitudeRequired"],
       [fails |-> ~IsZone(file.timezone),      error |-> "InvalidTimezone"],
       [fails |-> ~IsColor(file.color),        error |-> "InvalidHexColor"],
       [fails |-> NotPositive(Int64(file.interval)),      error |-> "InvalidPositiveInteger"],
       [fails |-> OutOfRange(file.level),      error |-> "OutOfRange"],
       [fails |-> file.format = Malformed,     error |-> "InvalidLogFormat"] >>

\* The first violation.
Violation(file) ==
    LET failing == {i \in DOMAIN Checks(file) : Checks(file)[i].fails}
    IN  IF failing = {} THEN NoError ELSE Checks(file)[Min(failing)].error

\* Mutant of Keeps: days are not checked.
KeepsAnyDay(entry) ==
    /\ \/ entry.repeat \in {"daily", "monthly"}
       \/ entry.repeat = "weekly" /\ entry.weekdays # {} /\ entry.weekdays \subseteq Weekdays
       \/ entry.repeat = "yearly" /\ IsMonthDay(entry.date)
    /\ entry.time = Empty \/ IsTimeOfDay(entry.time)

\* scheduled_notification: an entry that fails a check is dropped, no error.
Keeps(entry) ==
    /\ \/ entry.repeat = "daily"
       \/ entry.repeat = "weekly" /\ entry.weekdays # {} /\ entry.weekdays \subseteq Weekdays
       \/ entry.repeat = "monthly" /\ entry.day \in 1..31
       \/ entry.repeat = "yearly" /\ IsMonthDay(entry.date)
    /\ entry.time = Empty \/ IsTimeOfDay(entry.time)

Midnight == [hour |-> 0, minute |-> 0]
DefaultStart == [hour |-> 0, minute |-> 30]
DefaultEnd == [hour |-> 6, minute |-> 0]
DefaultPort == 1883

\* The configuration of a file without a violation.
Validated(file) ==
    [ port |-> NonZeroOr(file.port, DefaultPort),
      wsPort |-> file.wsPort,
      timezone |-> file.timezone,
      start |-> NonEmptyOr(file.start, DefaultStart),
      end |-> NonEmptyOr(file.end, DefaultEnd),
      entries |-> {[entry EXCEPT !.time = NonEmptyOr(@, Midnight),
                                 !.enabled = BooleanOr(@, TRUE)] :
                      entry \in {e \in file.entries : Keeps(e)}},
      weather |-> BooleanOr(file.weather, FALSE) ]

\* --- What the components make of it. ---

\* schedules: the names of the jobs of an entry, one for each weekday.
Schedules(entry) ==
    CASE entry.repeat = "daily"   -> {""}
      [] entry.repeat = "weekly"  -> {name \in entry.weekdays : IsWeekday(name)}
      [] entry.repeat = "monthly" -> IF entry.day \in 1..31 THEN {""} ELSE {}
      [] entry.repeat = "yearly"  -> IF IsMonthDay(entry.date) THEN {""} ELSE {}

\* ScheduledNotifier::start
JobsOf(entry) ==
    IF entry.enabled /\ (entry.time = Empty \/ IsTimeOfDay(entry.time))
    THEN {<<"scheduled", entry.name, job>> : job \in Schedules(entry)}
    ELSE {}

\* A port start_broker can listen on.
IsPort(port) == port \in 0..65535
===========================================================================
