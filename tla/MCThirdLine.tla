----------------------------- MODULE MCThirdLine -----------------------------
(***************************************************************************)
(* Instances of ThirdLine.  The partial dictionaries lack days and         *)
(* stations, hold one the app does not know and one without its transfer;  *)
(* the complete ones have the four stations on every day.                  *)
(***************************************************************************)
EXTENDS ThirdLine

Station(s, whole) ==
    [name     |-> IF s \in Stations THEN StationText[s] ELSE "Aerodromnaya",
     complete |-> whole,
     sheets   |-> [d \in {"toUbileynayaTimeSheet"} |-> <<21600>>]]

MCPartial == <<
    [weekday |-> [s \in {"kovalskaya", "vokzalnaya"} |-> Station(s, TRUE)]],
    [weekday |-> [s \in {"kovalskaya", "bogushevicha", "aerodromnaya"} |->
                    Station(s, s # "bogushevicha")],
     weekend |-> [s \in {"kovalskaya"} |-> Station(s, TRUE)]] >>

MCComplete == <<
    [day \in Days |-> [s \in Stations |-> Station(s, TRUE)]] >>
=============================================================================
