---------------------------- MODULE MCTimeScreen -----------------------------
(***************************************************************************)
(* An instance of TimeScreen: a schedule with a long hour, a single train *)
(* in the next hour and trains after midnight, which differ by day, and a  *)
(* station the app does not know; a second version without that station    *)
(* and without weekends; and instants from Friday morning over midnight,   *)
(* the shift of 00:25 and the GMT midnight to Saturday.                    *)
(***************************************************************************)
EXTENDS TimeScreen

MCSheet(day, v) ==
    CASE day = "weekday" -> <<21600, 37900, 38000, 39700, 86700>>
      [] day = "friday"  -> IF v = 1 THEN <<21600, 37900, 38000, 39700, 86400, 86700, 87600>>
                            ELSE <<37900, 39000, 86700>>
      [] day = "weekend" -> <<25200, 38100, 86500>>

MCStation(text, day, v) ==
    [name     |-> text,
     complete |-> TRUE,
     sheets   |-> [d \in Directions |-> MCSheet(day, v)]]

MCContent == [v \in Versions |->
    IF v = 1
    THEN [day \in Days |->
            [vokzalnaya   |-> MCStation(StationText["vokzalnaya"], day, v),
             bogushevicha |-> MCStation("Aerodromnaya", day, v)]]
    ELSE [day \in Days \ {"weekend"} |->
            [vokzalnaya |-> MCStation(StationText["vokzalnaya"], day, v)]]]

Friday == Day
Saturday == 2 * Day
MCInstants ==
    {Friday + 37800, Friday + 37900, Friday + 39600, Friday + 39650, Friday + 86100,
     Saturday, Saturday + 60, Saturday + 600, Saturday + 900, Saturday + 2400, Saturday + 38050}
=============================================================================
