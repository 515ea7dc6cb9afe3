-------------------------------- MODULE Cli -------------------------------
(***************************************************************************)
(* The command line (src/src/cli/mod.rs).  Before clap reads it, a scan    *)
(* looks for Go's single-dash long form, which clap would take for a       *)
(* cluster of short flags.                                                 *)
(*                                                                         *)
(* An argument is a record: its number of dashes, its name (what is        *)
(* between the dashes and any "="), the characters after a single dash,    *)
(* whether it has an "=", and the value: what comes after the "=", or the  *)
(* number it is when it is the value of the flag before it.                *)
(***************************************************************************)
EXTENDS Literals

Arguments == [dashes : 0..2, name : STRING, chars : Seq(STRING), eq : BOOLEAN,
              value : Seq(STRING)]

\* The flags.  A "separate" one takes the next argument as its value when it
\* has none of its own; the others are booleans.  --weather-wmo stands for the
\* integer flags, and --log-format is the only one whose value may not start
\* with a dash.  The last ones are --test-notification-text and so on, without
\* that prefix.
Separate == {"config", "log-level", "log-format", "weather-wmo", "text", "icon",
             "duration", "text-case", "center", "repeat", "overlay"}
Booleans == {"version", "rainbow"}
LongNames == Separate \cup Booleans \cup {"help"}
ShortNames == {"c", "l", "v", "h"}
SeparateShort == {"c", "l"}

IsEscape(arg) == arg.dashes = 2 /\ arg.name = ""

\* Mutant of EndsWithOption: a cluster never takes the next argument.
NeverEndsWithOption(chars) == FALSE /\ chars # <<>>

\* A cluster of short flags whose last one takes the next argument.
EndsWithOption(chars) ==
    /\ chars # <<>>
    /\ chars[Len(chars)] \in SeparateShort
    /\ \A i \in 1..(Len(chars) - 1) : chars[i] \in ShortNames \ SeparateShort

\* takes_separate_value, for the argument at hand.
TakesNext(arg) ==
    \/ arg.dashes = 2 /\ ~arg.eq /\ arg.name \in Separate
    \/ arg.dashes = 1 /\ EndsWithOption(arg.chars)

IsSingleDashLong(arg) == arg.dashes = 1 /\ arg.name \in LongNames

\* single_dash_long_form: the position of the first one, 0 if there is none.
SingleDashLongForm(args) ==
    LET scan[i \in 1..(Len(args) + 2)] ==
            IF i > Len(args) \/ IsEscape(args[i]) THEN 0
            ELSE IF IsSingleDashLong(args[i]) THEN i
            ELSE scan[IF TakesNext(args[i]) THEN i + 2 ELSE i + 1]
    IN  scan[1]

---------------------------------------------------------------------------
(* clap (external), as the flags are declared. *)

\* The value parsers.
Parses(name, value) ==
    CASE name \in {"weather-wmo", "duration"} -> ParseGoInt(value) # Invalid
      [] name \in Booleans    -> ParseGoBool(value) # Invalid
      [] name = "text-case"   -> ParseGoInt(value) \in 0..2
      [] name = "log-format"  -> value = <<"j", "s", "o", "n">>
      [] OTHER -> TRUE

\* An argument as the value of the flag before it.
AsValue(arg) == IF arg.eq THEN <<>> ELSE arg.value

\* The flag that ends a cluster, by its place: -v may be followed by others.
LastShort(chars) ==
    CHOOSE i \in DOMAIN chars :
        /\ chars[i] # "v" \/ i = Len(chars)
        /\ \A j \in 1..(i - 1) : chars[j] = "v"

\* The flag an argument is, by its long name, "" if it is none.
FlagAt(arg) ==
    CASE arg.dashes = 2 /\ arg.name \in LongNames -> arg.name
      [] arg.dashes = 1 /\ arg.chars # <<>> ->
             LET last == arg.chars[LastShort(arg.chars)]
             IN  CASE last = "c" -> "config"
                   [] last = "l" -> "log-level"
                   [] last = "h" -> "help"
                   [] last \in {"v", "="} /\ arg.chars[1] = "v" -> "version"
                   [] OTHER -> ""
      [] OTHER -> ""

\* The flag has no value of its own and needs one.
NeedsNext(arg) ==
    /\ FlagAt(arg) \in Separate
    /\ ~arg.eq
    /\ arg.dashes = 1 => LastShort(arg.chars) = Len(arg.chars)

\* A flag that takes a value gets one it can parse.
HasValue(args, i) ==
    LET name == FlagAt(args[i])
    IN  IF NeedsNext(args[i])
        THEN /\ i < Len(args)
             /\ name = "log-format" => args[i + 1].dashes = 0
             /\ Parses(name, AsValue(args[i + 1]))
        ELSE args[i].eq => Parses(name, args[i].value)

\* What clap makes of the argument at i, which is not a value, and of the rest:
\* it runs, shows the help, or fails; the last --version; and the positions it
\* read as flags.
ReadFlag(args, i, rest) ==
    LET arg == args[i]
        flag == FlagAt(arg)
        ends(result) == [result |-> result, flags |-> {i}, version |-> Invalid]
        given == IF flag = "version" /\ arg.eq THEN ParseGoBool(arg.value) ELSE TRUE
        setsVersion == flag = "version" \/ (arg.dashes = 1 /\ arg.chars[1] = "v")
    IN  CASE IsEscape(arg) /\ i = Len(args) -> ends("run")
          [] flag = "help" /\ ~arg.eq -> ends("help")
          [] flag \notin {"", "help"} /\ HasValue(args, i) ->
                 [result |-> rest.result,
                  flags |-> rest.flags \cup {i},
                  version |-> IF rest.version = Invalid /\ setsVersion
                              THEN given ELSE rest.version]
          [] OTHER -> ends("invalid")

Clap(args) ==
    LET read[i \in 1..(Len(args) + 2)] ==
            IF i > Len(args)
            THEN [result |-> "run", flags |-> {}, version |-> Invalid]
            ELSE ReadFlag(args, i, read[IF NeedsNext(args[i]) THEN i + 2 ELSE i + 1])
    IN  read[1]

\* default_missing_value of the booleans.
MissingValue == <<"t", "r", "u", "e">>

\* The flags that were given, by their long name, with their last value
\* (args_override_self).
Given(args) ==
    LET flags == Clap(args).flags
        last(name) == CHOOSE i \in flags :
                          /\ FlagAt(args[i]) = name
                          /\ \A j \in flags : j > i => FlagAt(args[j]) # name
        value(i) == CASE NeedsNext(args[i])                 -> AsValue(args[i + 1])
                      [] ~NeedsNext(args[i]) /\ args[i].eq  -> args[i].value
                      [] ~NeedsNext(args[i]) /\ ~args[i].eq -> MissingValue
    IN  [name \in {FlagAt(args[i]) : i \in flags} |-> value(last(name))]
===========================================================================
