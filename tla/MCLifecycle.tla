--------------------------- MODULE MCLifecycle ----------------------------
(***************************************************************************)
(* A valid configuration, files that differ from it in one value, and the  *)
(* command lines of up to three arguments.                                 *)
(***************************************************************************)
EXTENDS Lifecycle

Entry(name, repeat) ==
    [name |-> name, repeat |-> repeat, weekdays |-> {}, day |-> NoValue,
     date |-> Malformed, time |-> Empty, enabled |-> NoValue]

Time(hour, minute) == [hour |-> hour, minute |-> minute]
Date(month, day) == [month |-> month, day |-> day]

\* Entries at the edges of what is accepted, and beyond.
Entries ==
    { [Entry("daily", "daily") EXCEPT !.time = Time(23, 59)],
      [Entry("late", "daily") EXCEPT !.time = Time(24, 0)],
      [Entry("off", "daily") EXCEPT !.enabled = "Off"],
      [Entry("on", "daily") EXCEPT !.enabled = "Y"],
      [Entry("weekly", "weekly") EXCEPT !.weekdays = {"monday", "friday"}],
      [Entry("upper", "weekly") EXCEPT !.weekdays = {"Monday", "friday"}],
      Entry("never", "weekly"),
      [Entry("monthly", "monthly") EXCEPT !.day = 31],
      [Entry("month", "monthly") EXCEPT !.day = 32],
      [Entry("yearly", "yearly") EXCEPT !.date = Date(2, 29)],
      [Entry("year", "yearly") EXCEPT !.date = Date(2, 30)],
      Entry("hourly", "hourly") }

Valid ==
    [username |-> "user", password |-> "pass", latitude |-> 48, longitude |-> 11,
     timezone |-> "", color |-> "", interval |-> NoValue, level |-> NoValue, format |-> "text",
     port |-> 0, wsPort |-> NoValue, start |-> Empty, end |-> Empty,
     entries |-> Entries, weather |-> "yes"]

MCFiles ==
    { Valid,
      [Valid EXCEPT !.username = ""],
      [Valid EXCEPT !.timezone = "europe/berlin", !.level = -1],
      [Valid EXCEPT !.timezone = "Europe/Berlin", !.interval = <<"-", "1">>],
      [Valid EXCEPT !.start = Time(25, 0)],
      [Valid EXCEPT !.port = 65536],
      [Valid EXCEPT !.wsPort = 0, !.entries = {}, !.weather = NoValue],
      [Valid EXCEPT !.weather = "yEs"] }

\* The texts of an integer field.
Texts == UNION {[1..n -> {"-", "0", "1", "7", "8", "x", "_", "e"}] : n \in 1..4}

Arg(dashes, name, chars) ==
    [dashes |-> dashes, name |-> name, chars |-> chars, eq |-> FALSE, value |-> <<>>]

WithValue(name, value) == [Arg(2, name, <<>>) EXCEPT !.eq = TRUE, !.value = value]
MinusOne == [Arg(1, "1", <<"1">>) EXCEPT !.value = <<"-", "1">>]

MCArgs ==
    { Arg(0, "word", <<>>),
      Arg(2, "", <<>>),
      Arg(2, "config", <<>>),
      Arg(2, "log-format", <<>>),
      Arg(2, "weather-wmo", <<>>),
      [Arg(2, "weather-wmo", <<>>) EXCEPT !.eq = TRUE, !.value = <<"0", "7">>],
      [Arg(2, "version", <<>>) EXCEPT !.eq = TRUE, !.value = <<"f">>],
      Arg(1, "v", <<"v">>),
      Arg(1, "c", <<"c">>),
      Arg(1, "vc", <<"v", "c">>),
      Arg(1, "cv", <<"c", "v">>),
      Arg(1, "config", <<"c", "o", "n", "f", "i", "g">>),
      Arg(1, "help", <<"h", "e", "l", "p">>),
      [Arg(1, "log-level", <<"l", "o", "g", "=">>) EXCEPT !.eq = TRUE],
      MinusOne,
      Arg(2, "help", <<>>) }

\* The flags of the test notification with the values they are told by: zero,
\* another one, and one that cannot be read.
True == <<"t", "r", "u", "e">>
False == <<"f", "a", "l", "s", "e">>

MCNotificationArgs ==
    {WithValue(name, value) : name \in {"text", "icon", "overlay"}, value \in {<<>>, <<"a">>}} \cup
    {WithValue(name, value) : name \in {"duration", "text-case"},
                              value \in {<<"0">>, <<"0", "1">>, <<"7">>}} \cup
    {WithValue("repeat", value) : value \in {<<"0">>, <<"0", "1">>, <<"0", "x", "1">>}} \cup
    {WithValue(name, value) : name \in {"rainbow", "center"},
                              value \in {<<"f">>, True, False}} \cup
    {Arg(2, "rainbow", <<>>), Arg(2, "repeat", <<>>), MinusOne}

\* Levels on both sides of every limit.
MCLevels ==
    {<<>>, <<"e">>, <<"warn", "+">>, <<"warn", "+", "-", "1">>} \cup
    {<<name>> \o offset :
        name \in DOMAIN SlogLevels,
        offset \in {<<>>} \cup
            {<<sign, digit>> : sign \in {"+", "-"}, digit \in {"0", "1", "3", "4", "5", "7", "8"}} \cup
            {<<sign, "1", digit>> : sign \in {"+", "-"}, digit \in {"2", "3", "6", "7"}}}

NotValid == [Valid EXCEPT !.username = ""]

Input(a, e, f) == [args |-> a, env |-> e, file |-> f]

\* Every file, every text, every level and every command line, one at a time.
MCInputs ==
    {Input(<<>>, Invalid, f) : f \in MCFiles} \cup
    {Input(<<>>, Invalid, [NotValid EXCEPT !.interval = t]) : t \in Texts} \cup
    {Input(<<>>, level, NotValid) : level \in MCLevels} \cup
    {Input(<<WithValue("log-level", level)>>, <<"error">>, NotValid) : level \in MCLevels} \cup
    {Input(a, Invalid, NotValid) : a \in UNION {[1..n -> MCArgs] : n \in 1..3}} \cup
    {Input(a, Invalid, NotValid) : a \in UNION {[1..n -> MCNotificationArgs] : n \in 1..2}}
===========================================================================
