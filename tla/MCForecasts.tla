---------------------------- MODULE MCForecasts ----------------------------
(***************************************************************************)
(* Steps that sit on both sides of every threshold, one measurement at a   *)
(* time.                                                                   *)
(***************************************************************************)
EXTENDS Forecasts

MCConfig ==
    [notificationHorizon |-> 2, overlayHorizon |-> 2, heavyRain |-> 2,
     gustWarn |-> 1, gustSevere |-> 2, fogWarn |-> 2, fogSevere |-> 1,
     frostTemp |-> 3, frostDelta |-> 1, frostWindow |-> 1, frostPrecip |-> 2,
     enabled |-> Types]

Calm == [code |-> 0, precipitation |-> 0, snowfall |-> 0, temperature |-> 9,
         dewPoint |-> 9, gusts |-> 0, visibility |-> 9]

MCSteps ==
    {[Calm EXCEPT !.code = code] : code \in 
             {NoValue, 3, 51, 56, 61, 66, 75, 80, 82, 95, 96, 99}}
    \cup {[Calm EXCEPT !.code = 71, !.snowfall = depth] : depth \in {NoValue, 2}}
    \cup {[Calm EXCEPT !.code = 45, !.visibility = metres] : metres \in {NoValue, VisibilityAbsent, 0, 1}}
    \cup {[Calm EXCEPT !.gusts = speed] : speed \in {NoValue, 2, 3}}
    \cup {[Calm EXCEPT !.temperature = temperature, !.dewPoint = 2,
                       !.precipitation = rain] :
             temperature \in {1, 2, 3, 4}, rain \in {NoValue, 1, 2, 3}}
=============================================================================
