----------------------------- MODULE MCWeather -----------------------------
(***************************************************************************)
(* Forecasts with a thunderstorm and with strong gusts, alone, together or *)
(* not at all, each later or more severe than in the other forecasts.      *)
(***************************************************************************)
EXTENDS Weather

MCConfig ==
    [notificationHorizon |-> 3, overlayHorizon |-> 2, heavyRain |-> 50,
     gustWarn |-> 45, gustSevere |-> 60, fogWarn |-> 1000, fogSevere |-> 200,
     frostTemp |-> 3, frostDelta |-> 2, frostWindow |-> 4, frostPrecip |-> 1,
     enabled |-> Types \ {"Fog"}]

Step(time, code, gusts) ==
    [time |-> time, code |-> code, precipitation |-> 0, snowfall |-> 0,
     temperature |-> 20, dewPoint |-> 10, gusts |-> gusts, visibility |-> NoValue]

Calm == <<Step(0, 0, 0)>>
Thunder == <<Step(3, 95, 0)>>
Gale == <<Step(3, 96, 50), Step(4, 3, 50)>>

MCForecasts == {Calm, Thunder, Gale}

\* One thunderstorm that lasts.
Lasting == {[i \in 1..8 |-> Step(i - 1, 95, 0)]}
=============================================================================
