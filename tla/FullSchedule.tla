---------------------------- MODULE FullSchedule -----------------------------
(***************************************************************************)
(* The sheet with all the trains of a station and direction on weekdays or *)
(* on weekends (FullScheduleViewController and FullSchedulePresenter).     *)
(* The rows are counted once, in viewDidLoad, from the weekday schedule    *)
(* whichever day was asked for; a cell is computed each time the table     *)
(* asks for it, from the stored schedule of the day on the label.          *)
(***************************************************************************)
EXTENDS MetroData

VARIABLES
    allData,          \* "allData" in UserDefaults
    running,          \* the process is alive
    stationName,      \* text of stationNameLabel, "" when the sheet is not presented
    toStationName,    \* text of toStationNameLabel
    dayType,          \* text of dayTypeLabel
    numberOfRow,
    cells,            \* what the cells drawn so far display, by row
    trapped,          \* a subscript out of range ended the process
    counted           \* history: the schedule of viewDidLoad

sheetVars == <<stationName, toStationName, dayType, numberOfRow, cells, counted>>
vars == <<allData, running, sheetVars, trapped>>

IsOpen == stationName # ""

TypeOK ==
    /\ allData \in 0..MaxVersion
    /\ running \in BOOLEAN
    /\ stationName \in {""} \cup Texts
    /\ toStationName \in {""} \cup {DirectionText[d] : d \in Directions}
    /\ dayType \in {"", DayTypeText["weekday"], DayTypeText["weekend"]}
    /\ numberOfRow \in Nat
    /\ DOMAIN cells \subseteq 0..(numberOfRow - 1)
    /\ \A row \in DOMAIN cells :
          /\ cells[row].hour \in -1..23
          /\ cells[row].minutes \in Seq(0..59)
    /\ trapped \in BOOLEAN
    /\ counted \in 0..MaxVersion

\* No sheet: what a new FullScheduleViewController will start from.
Closed ==
    /\ stationName' = ""
    /\ toStationName' = ""
    /\ dayType' = ""
    /\ numberOfRow' = 0
    /\ cells' = <<>>
    /\ counted' = NoData

Init ==
    /\ allData \in {NoData, 1}
    /\ running = FALSE
    /\ stationName = ""
    /\ toStationName = ""
    /\ dayType = ""
    /\ numberOfRow = 0
    /\ cells = <<>>
    /\ trapped = FALSE
    /\ counted = NoData

StoreSchedule ==
    /\ running
    /\ allData' \in {v \in Versions : v > allData}
    /\ UNCHANGED <<running, sheetVars, trapped>>

\* A launch or a new scene: nothing is presented.
ConnectScene ==
    /\ running' = TRUE
    /\ trapped' = FALSE
    /\ Closed
    /\ UNCHANGED allData

\* The process is killed, or a trapped one is gone: the next one will read the
\* schedule that had reached the disk.
Kill ==
    /\ running \/ trapped
    /\ running' = FALSE
    /\ trapped' = FALSE
    /\ allData' \in 0..allData
    /\ Closed

-----------------------------------------------------------------------------
\* hours.count of the time sheet, with every departure of it.
RowsOf(v, day, text, to) ==
    LET sheet == TimeSheet(v, day, text, to) IN RowCount(sheet, DOMAIN sheet)

\* setNumberOfRow takes the key of the weekday, and leaves no rows when its
\* guard fails.
SetNumberOfRow(text, to) ==
    numberOfRow' = IF SheetFound(allData, "weekday", text, to)
                   THEN RowsOf(allData, "weekday", text, to)
                   ELSE 0

\* createFullScheduleModule: a new view controller with its labels.
SetItems(text, to, day) ==
    /\ stationName' = text
    /\ toStationName' = to
    /\ dayType' = DayTypeText[day]
    /\ cells' = <<>>

\* showWeekdaysButtonPressed or showWeekendButtonPressed, the presentation of the
\* sheet and its viewDidLoad.
OpenWeekdayVC(text, to, day) ==
    /\ running
    /\ ~IsOpen
    /\ allData # NoData
    /\ SetItems(text, to, day)
    /\ SetNumberOfRow(text, to)
    /\ counted' = allData
    /\ UNCHANGED <<allData, running, trapped>>

(* tableView(_:cellForRowAt:): with the time sheet of the day on the label   *)
(* the cell is configured, or the subscripts trap; without it the dequeued  *)
(* cell stays as it is.                                                     *)
ShownDay == DayOfTypeText(dayType)
ShownSheet == TimeSheet(allData, ShownDay, stationName, toStationName)

Drawing(row) == running /\ IsOpen /\ row < numberOfRow
CellFound == SheetFound(allData, ShownDay, stationName, toStationName)

ConfigureCell(row) ==
    /\ Drawing(row)
    /\ CellFound
    /\ RowInRange(ShownSheet, DOMAIN ShownSheet, row)
    /\ cells' = Drawn(cells, row, RowCell(ShownSheet, DOMAIN ShownSheet, row))
    /\ UNCHANGED <<allData, running, stationName, toStationName, dayType, numberOfRow,
                   counted, trapped>>

TrapInCell(row) ==
    /\ Drawing(row)
    /\ CellFound
    /\ ~RowInRange(ShownSheet, DOMAIN ShownSheet, row)
    /\ running' = FALSE
    /\ trapped' = TRUE
    /\ UNCHANGED <<allData, sheetVars>>

ReuseCell(row) ==
    /\ Drawing(row)
    /\ ~CellFound
    /\ \E content \in Reusable(cells) : cells' = Drawn(cells, row, content)
    /\ UNCHANGED <<allData, running, stationName, toStationName, dayType, numberOfRow,
                   counted, trapped>>

Dismiss ==
    /\ running /\ IsOpen
    /\ Closed
    /\ UNCHANGED <<allData, running, trapped>>

-----------------------------------------------------------------------------
Next ==
    \/ StoreSchedule \/ ConnectScene \/ Kill
    \/ \E text \in Texts, d \in Directions, day \in {"weekday", "weekend"} :
          OpenWeekdayVC(text, DirectionText[d], day)
    \/ \E row \in 0..(numberOfRow - 1) :
          ConfigureCell(row) \/ TrapInCell(row) \/ ReuseCell(row)
    \/ Dismiss

Spec == Init /\ [][Next]_vars

-----------------------------------------------------------------------------
(* Properties.                                                             *)

\* Row after row, scrolled in any order, the table shows each departure of the
\* time sheet of the day on the label once, in the row of its hour.
ShowsWholeSheet ==
    /\ \A i \in DOMAIN ShownSheet :
          \E row \in DOMAIN cells : \E k \in DOMAIN cells[row].minutes :
              HHmm(ShownSheet[i]) = <<cells[row].hour, cells[row].minutes[k]>>
    /\ \A r, s \in DOMAIN cells : cells[r].hour = cells[s].hour => r = s

AllDrawn == IsOpen /\ DOMAIN cells = 0..(numberOfRow - 1)

\* The process survives, and a table drawn from top to bottom is the full
\* schedule of the day asked for, if no download replaced the schedule meanwhile.
FullScheduleIsFull ==
    IsOpen /\ CellFound /\ counted = allData =>
        /\ ~trapped
        /\ AllDrawn => ShowsWholeSheet

\* On weekdays it is: the rows are counted from the sheet the cells show.
WeekdayIsFull == dayType = DayTypeText["weekday"] => FullScheduleIsFull

\* A subscript of configureTimeSheetTableViewCell is out of range only in a
\* weekend table with fewer hours than the weekday one it was sized from, or
\* after a late download replaced the schedule by one with fewer hours.
TrapNeedsFewerHours ==
    trapped =>
        IF counted = allData
        THEN /\ dayType = DayTypeText["weekend"]
             /\ RowsOf(allData, "weekend", stationName, toStationName)
                  < RowsOf(allData, "weekday", stationName, toStationName)
        ELSE RowsOf(allData, ShownDay, stationName, toStationName)
                  < RowsOf(counted, "weekday", stationName, toStationName)
=============================================================================
