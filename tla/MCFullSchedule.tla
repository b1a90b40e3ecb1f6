--------------------------- MODULE MCFullSchedule ----------------------------
(***************************************************************************)
(* Instances of FullSchedule.  MCService is a complete schedule, where     *)
(* weekends have more hours than weekdays in one direction and fewer in    *)
(* the other.  MCContent adds a station without a weekday schedule and a   *)
(* second version with fewer hours and no weekend.                         *)
(***************************************************************************)
EXTENDS FullSchedule

MCStation(s, up, down) ==
    [name     |-> StationText[s],
     complete |-> TRUE,
     sheets   |-> [toKovalskayaTimeSheet |-> up, toUbileynayaTimeSheet |-> down]]

MCWeekday == MCStation("kovalskaya", <<21600, 22200, 86400>>,
                                     <<21600, 25200, 25260, 87000>>)
MCWeekend == MCStation("kovalskaya", <<22000, 25200, 86400>>, <<25500, 86700>>)

MCService == <<
    [weekday |-> [kovalskaya |-> MCWeekday],
     weekend |-> [kovalskaya |-> MCWeekend]] >>

MCContent == <<
    [weekday |-> [kovalskaya |-> MCWeekday],
     weekend |-> [kovalskaya |-> MCWeekend,
                  ubileynaya |-> MCStation("ubileynaya", <<25200>>, <<25200, 29000>>)]],
    [weekday |-> [kovalskaya |-> MCStation("kovalskaya", <<21600>>, <<25500, 29000>>)]] >>
=============================================================================
