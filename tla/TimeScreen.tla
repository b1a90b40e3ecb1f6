----------------------------- MODULE TimeScreen ------------------------------
(***************************************************************************)
(* The screen of one station and direction (TimeViewController and         *)
(* TimeViewPresenter): the next train, the heading of the day and a table  *)
(* of the remaining trains, one row per hour.  The row count, the next     *)
(* train and the heading are computed once, in viewDidLoad; a cell is      *)
(* computed each time the table asks for it, from the clock and the stored *)
(* schedule of that moment.  The clock advances, a late download replaces  *)
(* the schedule, and the app stays in memory for days.                     *)
(***************************************************************************)
EXTENDS MetroData

CONSTANT Instants         \* the instants the clock can show

ASSUME InstantsAssumption == Instants \subseteq Nat

VARIABLES
    now,              \* the instant, in seconds of local time
    allData,          \* "allData" in UserDefaults
    dayOfWeek,        \* "dayOfWeek" in UserDefaults
    currentDay,       \* "currentDay" in UserDefaults, never read
    running,          \* the process is alive
    fromStation,      \* text of fromStationLabel, "" when no screen is open
    toStation,        \* text of toStationLabel
    numberOfRow,
    nextTimeValue,    \* nextTimeValueLabel
    dayOfWeekLabel,
    cells,            \* what the cells drawn so far display, by row
    trapped,          \* a subscript out of range ended the process
    connectedAt,      \* history: when the scene was connected
    opened            \* history: instant, clock readings and schedule of viewDidLoad

sharedVars == <<now, allData, dayOfWeek>>
screenVars == <<fromStation, toStation, numberOfRow, nextTimeValue,
                dayOfWeekLabel, cells, opened>>
vars == <<sharedVars, currentDay, running, screenVars, trapped, connectedAt>>

IsOpen == fromStation # ""

TypeOK ==
    /\ now \in Instants
    /\ allData \in 0..MaxVersion
    /\ dayOfWeek \in Days
    /\ currentDay \in {""} \cup {DayNames[i] : i \in DOMAIN DayNames}
    /\ running \in BOOLEAN
    /\ fromStation \in {""} \cup Texts
    /\ toStation \in {""} \cup {DirectionText[d] : d \in Directions}
    /\ numberOfRow \in Nat
    /\ nextTimeValue \in {NoTime} \cup ((0..23) \X (0..59))
    /\ dayOfWeekLabel \in {"", "weekend schedule", "friday schedule", "weekday schedule"}
    /\ DOMAIN cells \subseteq 0..(numberOfRow - 1)
    /\ \A row \in DOMAIN cells :
          /\ cells[row].hour \in -1..23
          /\ cells[row].minutes \in Seq(0..59)
    /\ trapped \in BOOLEAN
    /\ connectedAt \in {0} \cup Instants
    /\ opened \in [at : {0} \cup Instants, cur : -1..(Day - 1), data : 0..MaxVersion]

\* No screen: what a new TimeViewController will start from.
Closed ==
    /\ fromStation' = ""
    /\ toStation' = ""
    /\ numberOfRow' = 0
    /\ nextTimeValue' = NoTime
    /\ dayOfWeekLabel' = ""
    /\ cells' = <<>>
    /\ opened' = [at |-> 0, cur |-> 0, data |-> NoData]

Init ==
    /\ now \in Instants
    /\ allData \in {NoData, 1}
    /\ dayOfWeek \in Days
    /\ currentDay = ""
    /\ running = FALSE
    /\ fromStation = ""
    /\ toStation = ""
    /\ numberOfRow = 0
    /\ nextTimeValue = NoTime
    /\ dayOfWeekLabel = ""
    /\ cells = <<>>
    /\ trapped = FALSE
    /\ connectedAt = 0
    /\ opened = [at |-> 0, cur |-> 0, data |-> NoData]

-----------------------------------------------------------------------------
(* Environment: the clock, the download, the process.                       *)

Tick ==
    /\ now' \in {t \in Instants : t > now}
    /\ UNCHANGED <<allData, dayOfWeek, currentDay, running, screenVars, trapped, connectedAt>>

StoreSchedule ==
    /\ running
    /\ allData' \in {v \in Versions : v > allData}
    /\ UNCHANGED <<now, dayOfWeek, currentDay, running, screenVars, trapped, connectedAt>>

\* A launch, or a new scene in a process that kept running: initViewControllers
\* stores the key of the day and the start screen is shown again.
ConnectScene ==
    /\ running' = TRUE
    /\ trapped' = FALSE
    /\ dayOfWeek' = DayOfWeekKey(GmtDayName(now))
    /\ connectedAt' = now
    /\ Closed
    /\ UNCHANGED <<now, allData, currentDay>>

\* The process is killed, or a trapped one is gone: the next one will read the
\* schedule that had reached the disk.
Kill ==
    /\ running \/ trapped
    /\ running' = FALSE
    /\ trapped' = FALSE
    /\ allData' \in 0..allData
    /\ Closed
    /\ UNCHANGED <<now, dayOfWeek, currentDay, connectedAt>>

-----------------------------------------------------------------------------
\* createTimeModule: a new view controller with its labels.
SetItems(text, to) ==
    /\ fromStation' = text
    /\ toStation' = to
    /\ cells' = <<>>

(* The push of the screen and its viewDidLoad.  Without a station of that text   *)
(* viewDidLoad returns before the three calls of the presenter.             *)
OpenTimeVC(text, to) ==
    /\ running
    /\ ~IsOpen
    /\ allData # NoData
    /\ SetItems(text, to)
    /\ \E curRows, curNext \in CurrentTimeFromStartDay(now) :
          /\ curRows <= curNext
          /\ opened' = [at |-> now, cur |-> curRows, data |-> allData]
          /\ IF SheetFound(allData, dayOfWeek, text, to)
             THEN LET sheet == TimeSheet(allData, dayOfWeek, text, to)
                  IN  /\ numberOfRow' = RowCount(sheet, Upcoming(sheet, curRows))
                      /\ nextTimeValue' = NextTime(sheet, curNext)
             ELSE UNCHANGED <<numberOfRow, nextTimeValue>>
    /\ IF IsStationText(text)
       THEN /\ currentDay' = GmtDayName(now)
            /\ dayOfWeekLabel' = DayOfWeekLabel(GmtDayName(now))
       ELSE UNCHANGED <<currentDay, dayOfWeekLabel>>
    /\ UNCHANGED <<sharedVars, running, trapped, connectedAt>>

(* tableView(_:cellForRowAt:): with the time sheet the cell is configured,   *)
(* or the subscripts trap; without it the dequeued cell stays as it is.     *)
\* The clock is read after viewDidLoad read it.
CellReadings == {cur \in CurrentTimeFromStartDay(now) : now = opened.at => cur >= opened.cur}

ConfigureCell(row) ==
    /\ running /\ IsOpen /\ row < numberOfRow
    /\ SheetFound(allData, dayOfWeek, fromStation, toStation)
    /\ \E cur \in CellReadings :
          LET sheet == TimeSheet(allData, dayOfWeek, fromStation, toStation)
              I     == Upcoming(sheet, cur)
          IN  /\ RowInRange(sheet, I, row)
              /\ cells' = Drawn(cells, row, RowCell(sheet, I, row))
    /\ UNCHANGED <<sharedVars, currentDay, running, fromStation, toStation, numberOfRow,
                   nextTimeValue, dayOfWeekLabel, opened, trapped, connectedAt>>

TrapInCell(row) ==
    /\ running /\ IsOpen /\ row < numberOfRow
    /\ SheetFound(allData, dayOfWeek, fromStation, toStation)
    /\ \E cur \in CellReadings :
          LET sheet == TimeSheet(allData, dayOfWeek, fromStation, toStation)
          IN  ~RowInRange(sheet, Upcoming(sheet, cur), row)
    /\ running' = FALSE
    /\ trapped' = TRUE
    /\ UNCHANGED <<sharedVars, currentDay, screenVars, connectedAt>>

ReuseCell(row) ==
    /\ running /\ IsOpen /\ row < numberOfRow
    /\ ~SheetFound(allData, dayOfWeek, fromStation, toStation)
    /\ \E content \in Reusable(cells) : cells' = Drawn(cells, row, content)
    /\ UNCHANGED <<sharedVars, currentDay, running, fromStation, toStation, numberOfRow,
                   nextTimeValue, dayOfWeekLabel, opened, trapped, connectedAt>>

Back ==
    /\ running /\ IsOpen
    /\ Closed
    /\ UNCHANGED <<sharedVars, currentDay, running, trapped, connectedAt>>

-----------------------------------------------------------------------------
Next ==
    \/ Tick \/ StoreSchedule \/ ConnectScene \/ Kill
    \/ \E text \in Texts, d \in Directions : OpenTimeVC(text, DirectionText[d])
    \/ \E row \in 0..(numberOfRow - 1) :
          ConfigureCell(row) \/ TrapInCell(row) \/ ReuseCell(row)
    \/ Back

Spec == Init /\ [][Next]_vars

-----------------------------------------------------------------------------
(* Properties.                                                             *)

\* The time sheet viewDidLoad found, and the departures it counted.
HasOpenedSheet == IsOpen /\ SheetFound(opened.data, dayOfWeek, fromStation, toStation)
OpenedSheet == TimeSheet(opened.data, dayOfWeek, fromStation, toStation)
OpenedHours == HourSet(OpenedSheet, Upcoming(OpenedSheet, opened.cur))

\* All the trains of one of the counted hours have left since.
HourPassed ==
    OpenedHours \ HourSet(OpenedSheet, Upcoming(OpenedSheet, now % Day)) # {}

\* The subscripts of configureTimeSheetTableViewCell are out of range only after
\* the last train of an hour left in front of the open screen, or after a late
\* download replaced the schedule the rows were counted from.
NoTrapBeforeDeparture ==
    [][trapped' /\ ~trapped => allData # opened.data \/ HourPassed]_vars

\* Until then, and until midnight, every row drawn at any moment shows the hour
\* it was counted for, with all the trains of that hour that have yet to leave,
\* so that scrolling neither repeats nor skips an hour.
RowsKeepTheirHour ==
    /\ HasOpenedSheet
    /\ allData = opened.data
    /\ now \div Day = opened.at \div Day
    /\ ~HourPassed
    => \A row \in DOMAIN cells :
          LET hour == HourOfRow(OpenedHours, row)
          IN  /\ cells[row].hour = hour % 24
              /\ \A i \in Upcoming(OpenedSheet, now % Day) :
                    OpenedSheet[i] \div Hour = hour =>
                        \E k \in DOMAIN cells[row].minutes :
                            cells[row].minutes[k] = HHmm(OpenedSheet[i])[2]

\* Freshly opened, the screen announces the train its table starts with, and no
\* train if and only if the table is empty.
LabelLeadsTable ==
    /\ HasOpenedSheet
    /\ allData = opened.data
    /\ now = opened.at
    => /\ (nextTimeValue = NoTime) = (numberOfRow = 0)
       /\ 0 \in DOMAIN cells => nextTimeValue = <<cells[0].hour, cells[0].minutes[1]>>

\* It does so outside the 25 minutes in which only setNextTime counts the time
\* from the day before.
LabelLeadsTableByDay == opened.cur >= AfterMidnight => LabelLeadsTable

\* The departures of a station as a rider sees them: each local day runs its own
\* schedule, whose last trains leave after the next midnight.
ServiceDays == (opened.at \div Day - 1)..(now \div Day)
Sheets(d) ==
    Content[allData][DayOfWeekKey(DayName(d * Day))][StationOfText(fromStation)].sheets
RunsOn(d) == Sheets(d)[DirectionOfText(toStation)]
Departures == UNION {{d * Day + RunsOn(d)[i] : i \in DOMAIN RunsOn(d)} : d \in ServiceDays}

\* The dictionary has the station and the direction on these days, as the app
\* expects, with time sheets in ascending order and over before the GMT day changes.
ServiceHours ==
    \A d \in ServiceDays :
        /\ HasStation(allData, DayOfWeekKey(DayName(d * Day)), StationOfText(fromStation))
        /\ DirectionOfText(toStation) \in DOMAIN Sheets(d)
        /\ \A i \in DOMAIN RunsOn(d) :
              /\ RunsOn(d)[i] \in TzOffset..(Day + AfterMidnight)
              /\ \A j \in 1..(i - 1) : RunsOn(d)[j] <= RunsOn(d)[i]

\* No train has left since viewDidLoad computed the next one.
NoTrainLeft == \A t \in Departures : t > opened.at => t > now

AnnouncesNext ==
    IF nextTimeValue = NoTime
    THEN \A t \in Departures : t > opened.at =>
            (t - TzOffset) \div Day > (opened.at - TzOffset) \div Day
    ELSE \E next \in Departures :
            /\ nextTimeValue = HHmm(next)
            /\ next > now \/ (next = opened.at /\ opened.at % Day = 0)
            /\ \A t \in Departures : t > now => next <= t

\* The announced train is the first that leaves, or the last one of the service
\* day has left, although the day is taken from the GMT calendar and the time
\* from the local one: on a screen opened on the GMT day its scene was
\* connected, except between the shift of 00:25 and the GMT midnight, when the
\* schedule is still yesterday's.  It stays so, over midnight and over the shift
\* too, until the first train after viewDidLoad leaves: no earlier moment makes
\* the label that nobody refreshes stale.  Only when midnight falls between the two
\* readings of the clock does it announce a train that leaves in that very second.
AnnouncedTrainIsNext ==
    /\ HasOpenedSheet
    /\ allData = opened.data
    /\ ServiceHours
    /\ GmtDayName(connectedAt) = GmtDayName(opened.at)
    /\ opened.at % Day \notin AfterMidnight..(TzOffset - 1)
    /\ NoTrainLeft
    => AnnouncesNext

\* The heading names the schedule the table is made from, unless the GMT day has
\* changed since the scene was connected and stored its key.
HeadingNamesSchedule ==
    /\ dayOfWeekLabel # ""
    /\ dayOfWeekLabel # [weekday |-> "weekday schedule", friday |-> "friday schedule",
                          weekend |-> "weekend schedule"][dayOfWeek]
    => GmtDayName(opened.at) # GmtDayName(connectedAt)

-----------------------------------------------------------------------------
(* What the texts of the screen say, and it does not do.                   *)

\* The heading names the schedule the table is made from, also in an app that stays in
\* memory overnight.
HeadingNamesTable ==
    dayOfWeekLabel # "" =>
        dayOfWeekLabel = [weekday |-> "weekday schedule", friday |-> "friday schedule",
                          weekend |-> "weekend schedule"][dayOfWeek]

\* "The next train at" (nextTimeLabel) and "next trains today" (viewForHeaderInSection)
\* are true of a screen until the first train leaves: the label announces the train
\* that leaves next, the table starts with it, and the heading names the schedule
\* it is taken from; at every hour of the day, and however long ago the scene was
\* connected.
ScreenTellsNextTrains ==
    /\ HasOpenedSheet
    /\ allData = opened.data
    /\ ServiceHours
    /\ NoTrainLeft
    => /\ AnnouncesNext
       /\ LabelLeadsTable
       /\ HeadingNamesTable
=============================================================================
