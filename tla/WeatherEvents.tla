--------------------------- MODULE WeatherEvents ---------------------------
(***************************************************************************)
(* What a forecast means: the events of src/src/weather/events/mod.rs and  *)
(* the overlay of src/src/weather/mapping/mod.rs.  A forecast is a         *)
(* sequence of steps; each measurement of a step is a number or NoValue.   *)
(* Times count steps of 15 minutes, temperatures half degrees,             *)
(* precipitation tenths of a millimetre, snowfall half centimetres.        *)
(***************************************************************************)
EXTENDS Integers, Sequences, SequencesExt, FiniteSetsExt

CONSTANTS
    NoValue,    \* Option::None
    Config      \* the WeatherConfig: horizons, thresholds and enabled types

\* EventType::ALL, in the order the events are reported.
EventTypes == <<"Thunderstorm", "FreezingPrecip", "FrostRisk", "HeavyRain",
                "StrongGusts", "Snow", "Fog">>

Types == {EventTypes[i] : i \in DOMAIN EventTypes}

\* OverlayEffect, without None.
Overlays == {"Drizzle", "Rain", "Snow", "Storm", "Frost", "Thunder"}

ASSUME WeatherEventsAssumption ==
    /\ NoValue \notin Int \cup Overlays
    /\ Config.notificationHorizon \in Nat \ {0}
    /\ Config.overlayHorizon \in Nat \ {0}
    /\ \A field \in {"heavyRain", "gustWarn", "gustSevere", "fogWarn", "fogSevere",
                     "frostDelta", "frostWindow", "frostPrecip"} :
          Config[field] \in Nat
    /\ Config.frostTemp \in Int
    /\ Config.enabled \subseteq Types

\* Severity, and None for no event.
None == 0
Warning == 1
Severe == 2

\* The thresholds that are not configured: 0.5 degrees, 0.1 mm, 0.5 cm.
FreezingPrecipTemp == 1
FrostSeverePrecip == 1
SnowfallHeavy == 1

\* Event start times are rounded down to this in fingerprints.
FingerprintRounding == 2

---------------------------------------------------------------------------
(* WMO codes. *)

FogCodes == {45, 48}
DrizzleCodes == {51, 53, 55}
FreezingCodes == {56, 57, 66, 67}
RainCodes == {61, 63, 65, 80, 81}
SnowCodes == {71, 73, 75, 77, 85, 86}
StormCode == 82
ThunderCodes == {95, 96, 99}

\* wmo_to_overlay
WmoToOverlay(code) ==
    CASE code \in DrizzleCodes  -> "Drizzle"
      [] code \in FreezingCodes -> "Frost"
      [] code \in RainCodes     -> "Rain"
      [] code \in SnowCodes     -> "Snow"
      [] code = StormCode       -> "Storm"
      [] code \in ThunderCodes  -> "Thunder"
      [] OTHER                  -> NoValue

\* Mutant of Priority: frost and storm are equals.
PriorityTie(overlay) ==
    CASE overlay = NoValue   -> 0
      [] overlay = "Drizzle" -> 1
      [] overlay = "Rain"    -> 2
      [] overlay = "Snow"    -> 3
      [] overlay = "Storm"   -> 5
      [] overlay = "Frost"   -> 5
      [] overlay = "Thunder" -> 6

Priority(overlay) ==
    CASE overlay = NoValue   -> 0
      [] overlay = "Drizzle" -> 1
      [] overlay = "Rain"    -> 2
      [] overlay = "Snow"    -> 3
      [] overlay = "Storm"   -> 4
      [] overlay = "Frost"   -> 5
      [] overlay = "Thunder" -> 6

\* select_overlay: a later step replaces the best only when it is stronger.
SelectOverlay(points, t) ==
    LET stronger(best, point) ==
            LET overlay == WmoToOverlay(point.code)
            IN  IF /\ t <= point.time /\ point.time < t + Config.overlayHorizon
                   /\ Priority(overlay) > Priority(best)
                THEN overlay ELSE best
    IN  FoldLeft(stronger, NoValue, points)

---------------------------------------------------------------------------
(* The severity of each event type at a step. *)

Thunderstorm(point) ==
    CASE point.code = 95        -> Warning
      [] point.code \in {96, 99} -> Severe
      [] OTHER                  -> None

FreezingPrecip(point) == IF point.code \in FreezingCodes THEN Severe ELSE None

\* has_precipitation_in_window
HasPrecipitation(i, points) ==
    \E j \in DOMAIN points :
        /\ points[i].time <= points[j].time
        /\ points[j].time <= points[i].time + Config.frostWindow
        /\ points[j].precipitation # NoValue
        /\ points[j].precipitation >= Config.frostPrecip

FrostRisk(i, points) ==
    LET point == points[i]
        freezing == /\ NoValue \notin {point.temperature, point.precipitation}
                    /\ point.temperature <= FreezingPrecipTemp
                    /\ point.precipitation >= FrostSeverePrecip
        frostPossible == /\ NoValue \notin {point.temperature, point.dewPoint}
                         /\ point.temperature <= Config.frostTemp
                         /\ point.temperature - point.dewPoint <= Config.frostDelta
    IN  CASE point.code \in FreezingCodes \/ freezing         -> Severe
          [] ~(point.code \in FreezingCodes \/ freezing)
             /\ frostPossible /\ HasPrecipitation(i, points)  -> Warning
          [] OTHER                                            -> None

\* Mutant of HeavyRain: only the measured amount counts.
HeavyRainMeasured(point) ==
    IF point.precipitation # NoValue /\ point.precipitation > Config.heavyRain
    THEN Warning ELSE None

HeavyRain(point) ==
    CASE point.code = StormCode                           -> Severe
      [] point.code # StormCode
         /\ point.precipitation # NoValue
         /\ point.precipitation > Config.heavyRain        -> Warning
      [] OTHER                                            -> None

StrongGusts(point) ==
    CASE point.gusts = NoValue            -> None
      [] point.gusts # NoValue            ->
             IF point.gusts > Config.gustSevere THEN Severe
             ELSE IF point.gusts > Config.gustWarn THEN Warning ELSE None

Snow(point) ==
    CASE point.code \notin SnowCodes -> None
      [] point.code \in SnowCodes    ->
             IF point.snowfall # NoValue /\ point.snowfall > SnowfallHeavy
             THEN Severe ELSE Warning

Fog(point) ==
    CASE point.code \notin FogCodes                              -> None
      [] point.code \in FogCodes /\ point.visibility = NoValue   -> Warning
      [] point.code \in FogCodes /\ point.visibility # NoValue   ->
             IF point.visibility < Config.fogSevere THEN Severe
             ELSE IF point.visibility < Config.fogWarn THEN Warning ELSE None

\* check_point
SeverityAt(type, i, points) ==
    CASE type = "Thunderstorm"   -> Thunderstorm(points[i])
      [] type = "FreezingPrecip" -> FreezingPrecip(points[i])
      [] type = "FrostRisk"      -> FrostRisk(i, points)
      [] type = "HeavyRain"      -> HeavyRain(points[i])
      [] type = "StrongGusts"    -> StrongGusts(points[i])
      [] type = "Snow"           -> Snow(points[i])
      [] type = "Fog"            -> Fog(points[i])

---------------------------------------------------------------------------
(* detect_events. *)

\* The steps within the horizon at which an event is detected.
DetectedAt(type, points, t) ==
    {i \in DOMAIN points :
        /\ t <= points[i].time
        /\ points[i].time <= t + Config.notificationHorizon
        /\ SeverityAt(type, i, points) # None}

\* Mutant of RecordEvent: the last step's time and severity win.
RecordLast(type, points, steps) ==
    LET last == Max(steps)
    IN  [type |-> type,
         start |-> points[last].time,
         severity |-> SeverityAt(type, last, points)]

\* record_event over those steps: the earliest start, the highest severity.
RecordEvent(type, points, steps) ==
    [type |-> type,
     start |-> Min({points[i].time : i \in steps}),
     severity |-> Max({SeverityAt(type, i, points) : i \in steps})]

\* The candidates, one for each enabled type that is detected.
DetectEvents(points, t) ==
    {RecordEvent(type, points, DetectedAt(type, points, t)) :
        type \in {e \in Config.enabled : DetectedAt(e, points, t) # {}}}

\* EventCandidate.fingerprint
Fingerprint(candidate) ==
    <<candidate.type, candidate.start \div FingerprintRounding, candidate.severity>>
=============================================================================
