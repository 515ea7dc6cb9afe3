----------------------------- MODULE Forecasts -----------------------------
(***************************************************************************)
(* The forecasts: the answers of Open-Meteo, built step by step, what      *)
(* parse_raw (src/src/weather/fetch/mod.rs) makes of them, those that are  *)
(* simulated (src/src/weather/simulate/mod.rs), and what detect_events and *)
(* select_overlay promise about each of them.  The steps need not be in    *)
(* order of time: local times are resolved one by one, and an hour that    *)
(* happens twice is given the same instants twice.                         *)
(***************************************************************************)
EXTENDS WeatherEvents

CONSTANTS
    Steps,      \* the steps of an answer, without their time
    Instants,   \* the times they may have
    Codes,      \* the codes of --weather-wmo
    MaxPoints   \* bound: the length of an answer

VARIABLES
    answer,     \* the arrays of the JSON answer; one that is missing or null is empty
    forecast    \* the forecast, empty when the fetch failed

forecastsVars == <<answer, forecast>>

Measurements == {"code", "precipitation", "snowfall", "temperature", "dewPoint",
                 "gusts", "visibility"}

ASSUME ForecastsAssumption ==
    /\ \A step \in Steps, m \in Measurements : step[m] \in Int \cup {NoValue}
    /\ Instants \cup Codes \subseteq Int
    /\ MaxPoints \in Nat

\* What Open-Meteo writes for no visibility.
VisibilityAbsent == -999

\* Mutant of ParseRaw: null is read as zero.
ParseRawZero(raw) ==
    LET count == Len(raw.time)
        orZero(value) == IF value = NoValue THEN 0 ELSE value
        valid == /\ NoValue \notin {raw.time[i] : i \in 1..count}
                 /\ \A m \in Measurements \ {"visibility"} : Len(raw[m]) = count
        visibility(i) ==
            IF Len(raw.visibility) = count /\ raw.visibility[i] # VisibilityAbsent
            THEN raw.visibility[i] ELSE NoValue
    IN  IF valid
        THEN [i \in 1..count |->
                [a \in DOMAIN raw |->
                    IF a = "visibility" THEN visibility(i) ELSE orZero(raw[a][i])]]
        ELSE <<>>

\* parse_raw and parse_time: every array but visibility has a value for each
\* step, null where there is none; a step without a legible time is an error.
ParseRaw(raw) ==
    LET count == Len(raw.time)
        valid == /\ NoValue \notin {raw.time[i] : i \in 1..count}
                 /\ \A m \in Measurements \ {"visibility"} : Len(raw[m]) = count
        visibility(i) ==
            IF Len(raw.visibility) = count /\ raw.visibility[i] # VisibilityAbsent
            THEN raw.visibility[i] ELSE NoValue
    IN  IF valid
        THEN [i \in 1..count |->
                [a \in DOMAIN raw |-> IF a = "visibility" THEN visibility(i) ELSE raw[a][i]]]
        ELSE <<>>

\* synthetic_forecast: twelve hours of the same weather, from the step now is in.
SyntheticForecast(code, now) ==
    [i \in 1..48 |->
        [time |-> now + i - 1, code |-> code, precipitation |-> 60, snowfall |-> 2,
         temperature |-> 3, dewPoint |-> 0, gusts |-> 50, visibility |-> 150]]

ForecastsInit ==
    /\ answer = [a \in Measurements \cup {"time"} |-> <<>>]
    /\ forecast = ParseRaw(answer)

\* The answer has one more step, its time and its measurements or null.
AddStep(step, time) ==
    /\ Len(answer.time) < MaxPoints
    /\ \A a \in DOMAIN answer : Len(answer[a]) = Len(answer.time)
    /\ answer' = [a \in DOMAIN answer |->
                    Append(answer[a], IF a = "time" THEN time ELSE step[a])]
    /\ forecast' = ParseRaw(answer')

\* One of its arrays ends early.
CutShort(a) ==
    /\ answer[a] # <<>>
    /\ \A b \in DOMAIN answer : Len(answer[b]) = Len(answer.time)
    /\ answer' = [answer EXCEPT ![a] = Front(@)]
    /\ forecast' = ParseRaw(answer')

\* simulation and simulate_fetch: 0 turns it off.
Simulate(code, now) ==
    /\ answer.time = <<>> /\ code # 0
    /\ forecast' = SyntheticForecast(code, now)
    /\ UNCHANGED answer

ForecastsNext ==
    \/ \E step \in Steps, time \in Instants \cup {NoValue} : AddStep(step, time)
    \/ \E a \in DOMAIN answer : CutShort(a)
    \/ \E code \in Codes, now \in Instants : Simulate(code, now)

ForecastsSpec == ForecastsInit /\ [][ForecastsNext]_forecastsVars

---------------------------------------------------------------------------
(* Properties. *)

CandidateOf(type, t) == {c \in DetectEvents(forecast, t) : c.type = type}

\* The overlay does not depend on the order of the steps: no two overlays have
\* the same priority, so a strict comparison keeps no trace of which came first.
OverlayIgnoresOrder ==
    \A t \in Instants : SelectOverlay(forecast, t) = SelectOverlay(Reverse(forecast), t)

\* What the display shows is also warned about: an overlay of thunder, frost,
\* storm or snow comes with a warning of its type, no later than the overlay's
\* horizon, and freezing precipitation with a severe frost warning as well,
\* for the types that are enabled, unless the overlay looks further ahead.
OverlaysAreWarned ==
    Config.overlayHorizon <= Config.notificationHorizon =>
    \A t \in Instants :
        LET warned(type, least) ==
            type \in Config.enabled =>
                \E c \in CandidateOf(type, t) :
                    c.severity >= least /\ c.start < t + Config.overlayHorizon
            overlay == SelectOverlay(forecast, t)
        IN  /\ overlay = "Thunder" => warned("Thunderstorm", Warning)
            /\ overlay = "Frost"   => /\ warned("FreezingPrecip", Severe)
                                      /\ warned("FrostRisk", Severe)
            /\ overlay = "Storm"   => warned("HeavyRain", Severe)
            /\ overlay = "Snow"    => warned("Snow", Warning)

\* Until an event begins, later polls of the same forecast report the same
\* start, and a severity that can only rise as the horizon moves on.
StableUntilStart ==
    \A t \in Instants, u \in Instants :
        \A c \in DetectEvents(forecast, t) :
            t <= u /\ u <= c.start =>
                \E d \in CandidateOf(c.type, u) :
                    d.start = c.start /\ d.severity >= c.severity

\* A measurement that is missing is never taken for one that is there: without
\* it no event is found that was not found with it, none is more severe and
\* none starts earlier.  Fog is reported without a visibility, so of that it
\* only matters that null, -999 and a short array are the same.
MissingIsNotZero ==
    /\ \A i \in DOMAIN forecast \cap DOMAIN answer.time, m \in Measurements \ {"visibility"} :
          LET without == ParseRaw([answer EXCEPT ![m][i] = NoValue])
          IN  \A t \in Instants : \A c \in DetectEvents(without, t) :
                  \E d \in CandidateOf(c.type, t) :
                      d.severity >= c.severity /\ d.start <= c.start
    /\ LET seen(values) == ParseRaw([answer EXCEPT !.visibility = values])
           all(value) == [i \in DOMAIN answer.time |-> value]
       IN  seen(all(VisibilityAbsent)) = seen(all(NoValue)) /\ seen(<<>>) = seen(all(NoValue))
=============================================================================
