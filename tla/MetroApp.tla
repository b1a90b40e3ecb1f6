------------------------------ MODULE MetroApp -------------------------------
(***************************************************************************)
(* The app as a whole: the start screen with its downloads, the time       *)
(* screen it pushes and the full schedule that screen presents, over one   *)
(* UserDefaults, one clock and one process.  Every step is a step of the   *)
(* screens that take part in it.  A time screen is opened with the texts   *)
(* of a cell of the start screen, which may have been drawn from an        *)
(* earlier schedule; a subscript out of range in one screen ends all of    *)
(* them, with whatever had not reached the disk.                           *)
(***************************************************************************)
EXTENDS ThirdLine

CONSTANT Instants         \* the instants the clock can show

ASSUME AppInstantsAssumption == Instants \subseteq Nat

VARIABLES
    now, currentDay, connectedAt,
    \* TimeViewController
    fromStation, toStation, timeRows, nextTimeValue, dayOfWeekLabel, timeCells, opened,
    \* FullScheduleViewController
    stationName, toStationName, dayType, fullRows, fullCells, counted,
    trap,             \* the screen whose subscript ended the process, or "no"
    pendingAtOpen     \* history: a download was on its way when the time screen opened

clockVars == <<now, currentDay, connectedAt>>
timeVars == <<fromStation, toStation, timeRows, nextTimeValue, dayOfWeekLabel,
              timeCells, opened, pendingAtOpen>>
fullVars == <<stationName, toStationName, dayType, fullRows, fullCells, counted>>
appVars == <<vars, clockVars, timeVars, fullVars, trap>>

\* A trapped process is gone for the screen that trapped; the other one only
\* stops, until the system has cleared it away.
Time == INSTANCE TimeScreen WITH
    running     <- screen # 0 /\ trap # "time",
    trapped     <- trap = "time",
    numberOfRow <- timeRows,
    cells       <- timeCells

Full == INSTANCE FullSchedule WITH
    running     <- screen # 0 /\ trap # "full",
    trapped     <- trap = "full",
    numberOfRow <- fullRows,
    cells       <- fullCells

Alive == screen # 0 /\ trap = "no"

AppInit ==
    /\ Init
    /\ now \in Instants
    /\ today = DayOfWeekKey(GmtDayName(now))
    /\ currentDay = "" /\ connectedAt = 0
    /\ fromStation = "" /\ toStation = "" /\ timeRows = 0
    /\ nextTimeValue = NoTime /\ dayOfWeekLabel = "" /\ timeCells = <<>>
    /\ opened = [at |-> 0, cur |-> 0, data |-> NoData]
    /\ stationName = "" /\ toStationName = "" /\ dayType = ""
    /\ fullRows = 0 /\ fullCells = <<>> /\ counted = NoData
    /\ trap = "no" /\ pendingAtOpen = FALSE

-----------------------------------------------------------------------------
(* The device and the server.                                              *)

Tick ==
    /\ UNCHANGED <<published, storeVars, viewVars, inflight, mainQueue, presented,
                   ended, fullVars, trap, pendingAtOpen>>
    /\ Time!Tick
    /\ today' = DayOfWeekKey(GmtDayName(now'))

ServerPublishes ==
    /\ Publish
    /\ UNCHANGED <<clockVars, timeVars, fullVars, trap>>

\* The scene is connected: its start screen is alone in the window.
Connect ==
    /\ trap = "no"
    /\ UNCHANGED trap
    /\ pendingAtOpen' = FALSE
    /\ ConnectScene
    /\ Time!ConnectScene
    /\ Full!ConnectScene

\* The end of the process, by the system or after a trap.
ProcessEnds ==
    /\ Kill
    /\ trap' = "no"
    /\ pendingAtOpen' = FALSE
    /\ Time!Kill
    /\ Full!Kill

-----------------------------------------------------------------------------
\* The start screen and its downloads, which go on below the other screens.
StartScreen ==
    /\ Alive
    /\ \/ Flush
       \/ \E s \in Screens :
             LoseAnswer(s) \/ \E result \in {published, Failure, Malformed} : Answer(s, result)
       \/ DeliverFailure \/ DeliverMalformed \/ DeliverData
       \/ TapRetry \/ TapOk
       \/ \E row \in Rows : CellForRowAt(row)
    /\ UNCHANGED <<clockVars, timeVars, fullVars, trap>>

\* A getData call or its completion is on its way.
Pending == (\E s \in Screens : inflight[s] > 0) \/ mainQueue # <<>>

\* A direction button: the texts of the cell become the labels of the new screen.
PushTimeScreen(row, direction) ==
    /\ Alive
    /\ UNCHANGED <<fullVars, trap>>
    /\ OpenTimeVC(row, direction)
    /\ Time!OpenTimeVC(cells[row].name, DirectionText[direction])
    /\ pendingAtOpen' = Pending

PopTimeScreen ==
    /\ Alive
    /\ UNCHANGED <<fullVars, trap>>
    /\ Back
    /\ Time!Back
    /\ pendingAtOpen' = FALSE

DrawTimeCell(row) ==
    /\ Alive
    /\ UNCHANGED <<vars, fullVars, trap, pendingAtOpen>>
    /\ Time!ConfigureCell(row) \/ Time!ReuseCell(row)

TrapInTimeCell(row) ==
    /\ Alive
    /\ trap' = "time"
    /\ UNCHANGED <<vars, fullVars, pendingAtOpen>>
    /\ Time!TrapInCell(row)

\* A button of the time screen: its labels become those of the sheet.
PresentFullSchedule(day) ==
    /\ Alive
    /\ OpenFullSchedule
    /\ UNCHANGED <<clockVars, timeVars, trap>>
    /\ Full!OpenWeekdayVC(fromStation, toStation, day)

DismissSheet ==
    /\ Alive
    /\ DismissFullSchedule
    /\ UNCHANGED <<clockVars, timeVars, trap>>
    /\ Full!Dismiss

DrawFullCell(row) ==
    /\ Alive
    /\ UNCHANGED <<vars, clockVars, timeVars, trap>>
    /\ Full!ConfigureCell(row) \/ Full!ReuseCell(row)

TrapInFullCell(row) ==
    /\ Alive
    /\ trap' = "full"
    /\ UNCHANGED <<vars, clockVars, timeVars>>
    /\ Full!TrapInCell(row)

-----------------------------------------------------------------------------
AppNext ==
    \/ Tick \/ ServerPublishes \/ Connect \/ ProcessEnds
    \/ StartScreen
    \/ \E row \in Rows, direction \in Directions : PushTimeScreen(row, direction)
    \/ PopTimeScreen
    \/ \E row \in 0..(timeRows - 1) : DrawTimeCell(row) \/ TrapInTimeCell(row)
    \/ \E day \in {"weekday", "weekend"} : PresentFullSchedule(day)
    \/ DismissSheet
    \/ \E row \in 0..(fullRows - 1) : DrawFullCell(row) \/ TrapInFullCell(row)

AppSpec == AppInit /\ [][AppNext]_appVars

-----------------------------------------------------------------------------
(* Properties.                                                             *)

\* The surroundings the time screen and the full schedule were checked in, where
\* a schedule is only ever replaced by a later one, by a download of the running
\* process, and is lost only with the process, are the ones the app gives them.
TimeSpec == Time!Spec
FullSpec == Full!Spec

\* The weekend has fewer hours than the weekday table was sized for.
ShortWeekend ==
    /\ dayType = DayTypeText["weekend"]
    /\ Full!RowsOf(allData, "weekend", stationName, toStationName)
         < Full!RowsOf(allData, "weekday", stationName, toStationName)

\* A download ends the process in a table only if it was already on its way when
\* the user opened the time screen.  Without one, and whatever the user opens,
\* closes and retries, the only causes are an hour that has passed on the screen
\* and a weekend with fewer hours.
TrapNeedsPendingDownload ==
    [][trap = "no" /\ trap' # "no" =>
         \/ pendingAtOpen
         \/ trap' = "time" /\ Time!HourPassed
         \/ trap' = "full" /\ ShortWeekend]_appVars

\* In the app too, below downloads, kills and new scenes, a weekday sheet shows every
\* departure once as long as the schedule its rows were counted from is stored.
WeekdaySheetIsFull == Full!WeekdayIsFull

\* A dictionary that calls the stations by the names of the app.
NamesMatch ==
    \A v \in Versions : \A day \in DOMAIN Content[v] :
        \A s \in DOMAIN Content[v][day] \cap Stations :
            Content[v][day][s].name = StationText[s]

\* Who lives on the cached schedule never meets a time screen without trains'
\* sheet: a cell whose texts no longer lead to one needs a download that replaced
\* the schedule after the cell was drawn, over days, scenes and kills.
CachedCellsLead ==
    /\ NamesMatch
    /\ fromStation # ""
    /\ savedBy = 0
    => SheetFound(opened.data, dayOfWeek, fromStation, toStation)
=============================================================================
