----------------------------- MODULE MCMetroApp ------------------------------
(***************************************************************************)
(* An instance of MetroApp: the weekend of the first schedule lacks the    *)
(* station of the first row; the second one has fewer hours, no Friday in  *)
(* one direction, and a short weekend.                                     *)
(***************************************************************************)
EXTENDS MetroApp

MCStation(s, up, down) ==
    [name     |-> StationText[s],
     complete |-> TRUE,
     sheets   |-> IF down = <<>> THEN [toKovalskayaTimeSheet |-> up]
                  ELSE [toKovalskayaTimeSheet |-> up, toUbileynayaTimeSheet |-> down]]

MCContent == <<
    [weekday |-> [kovalskaya |-> MCStation("kovalskaya", <<21600, 86400>>, <<25200>>)],
     friday  |-> [kovalskaya |-> MCStation("kovalskaya", <<37900, 39700>>, <<39800>>)],
     weekend |-> [vokzalnaya |-> MCStation("vokzalnaya", <<39600>>, <<>>)]],
    [weekday |-> [kovalskaya |-> MCStation("kovalskaya", <<21600, 86400>>, <<25200>>)],
     friday  |-> [kovalskaya |-> MCStation("kovalskaya", <<39700>>, <<>>)],
     weekend |-> [kovalskaya |-> MCStation("kovalskaya", <<39700>>, <<>>)]] >>

MCInstants == {Day + 37800, Day + 39600, 2 * Day + 38050}
=============================================================================
