-------------------------- MODULE TimeScreenProofs ---------------------------
(***************************************************************************)
(* Proofs about the time screen, for every dictionary of ascending time    *)
(* sheets, every time zone and every set of instants.  The screen is       *)
(* computed in two halves: the row count, the label and the heading in     *)
(* viewDidLoad, the cells whenever the table asks for them.  The inductive *)
(* invariant ties what is on the screen to the schedule and the reading of *)
(* the clock that viewDidLoad used; that the later readings of the cells   *)
(* fit to it follows from the order of instants.                           *)
(***************************************************************************)
EXTENDS TimeScreen, MetroDataProofs

-----------------------------------------------------------------------------
(* Invariants.                                                             *)

\* A screen exists only in a process, which stored the day of its scene.
Connected ==
    /\ ~running /\ ~trapped => ~IsOpen
    /\ running \/ trapped => dayOfWeek = DayOfWeekKey(GmtDayName(connectedAt))

\* Without a screen nothing is left of one.
NothingOpen == ~IsOpen => numberOfRow = 0 /\ nextTimeValue = NoTime /\ dayOfWeekLabel = ""

\* viewDidLoad read the clock before, and a schedule that is not newer.
OpenedBefore ==
    IsOpen => /\ opened.at \in Nat /\ opened.at <= now
              /\ opened.data \in 1..allData
              /\ opened.cur \in CurrentTimeFromStartDay(opened.at)

\* The rows were counted, the heading and the label set, from what it read.
CountedRows == IsOpen => numberOfRow = IF HasOpenedSheet THEN Cardinality(OpenedHours) ELSE 0

Heading == dayOfWeekLabel # "" => dayOfWeekLabel = DayOfWeekLabel(GmtDayName(opened.at))

Announced ==
    HasOpenedSheet => \E cur \in CurrentTimeFromStartDay(opened.at) :
                          nextTimeValue = NextTime(OpenedSheet, cur)

ScreenInv ==
    /\ TypeOK
    /\ Connected /\ NothingOpen /\ OpenedBefore
    /\ CountedRows /\ Heading /\ Announced

-----------------------------------------------------------------------------
(* Types.                                                                  *)

\* The type invariant in three parts, which few steps change together.
ClockTypes ==
    /\ now \in Instants /\ now \in Nat
    /\ allData \in 0..MaxVersion /\ dayOfWeek \in Days
    /\ running \in BOOLEAN /\ trapped \in BOOLEAN
    /\ connectedAt \in {0} \cup Instants
    /\ opened \in [at : {0} \cup Instants, cur : -1..(Day - 1), data : 0..MaxVersion]

LabelTypes ==
    /\ currentDay \in {""} \cup {DayNames[i] : i \in DOMAIN DayNames}
    /\ fromStation \in {""} \cup Texts
    /\ toStation \in {""} \cup {DirectionText[d] : d \in Directions}
    /\ nextTimeValue \in {NoTime} \cup ((0..23) \X (0..59))
    /\ dayOfWeekLabel \in {"", "weekend schedule", "friday schedule", "weekday schedule"}

CellTypes ==
    /\ numberOfRow \in Nat
    /\ DOMAIN cells \in SUBSET (0..(numberOfRow - 1))
    /\ \A row \in DOMAIN cells : CellType(cells[row])

LEMMA TypeParts == TypeOK <=> ClockTypes /\ LabelTypes /\ CellTypes
<1>1. now \in Instants => now \in Nat
  BY InstantsAssumption, Zenon
<1>2. DOMAIN cells \subseteq 0..(numberOfRow - 1) <=> DOMAIN cells \in SUBSET (0..(numberOfRow - 1))
  BY Zenon
<1>. QED
  BY <1>1, <1>2, Zenon DEF TypeOK, ClockTypes, LabelTypes, CellTypes, CellType

Types == ClockTypes /\ LabelTypes /\ CellTypes

LEMMA TypePartsNext == Types' => TypeOK'
<1>1. DOMAIN cells' \subseteq 0..(numberOfRow' - 1)
        <=> DOMAIN cells' \in SUBSET (0..(numberOfRow' - 1))
  BY Zenon
<1>. QED
  BY <1>1, Zenon DEF Types, TypeOK, ClockTypes, LabelTypes, CellTypes, CellType

NothingOpened == [at |-> 0, cur |-> 0, data |-> NoData]

LEMMA NothingOpenedType ==
    NothingOpened \in [at : {0} \cup Instants, cur : -1..(Day - 1), data : 0..MaxVersion]
<1>1. 0 \in -1..(Day - 1) /\ 0 \in 0..MaxVersion
  BY Constants, MaxVersionAssumption
<1>. QED
  BY <1>1 DEF NothingOpened, NoData

LEMMA TypeInit == Init => TypeOK
<1>. SUFFICES ASSUME Init PROVE Types
  BY TypeParts DEF Types
<1>1. ClockTypes
  <2>1. opened = NothingOpened
    BY DEF Init, NothingOpened
  <2>2. now \in Instants /\ allData \in {0, 1}
    BY Zenon DEF Init, NoData
  <2>3. now \in Nat /\ allData \in 0..MaxVersion
    BY <2>2, InstantsAssumption, MaxVersionAssumption
  <2>. QED
    BY <2>1, <2>3, NothingOpenedType, Zenon DEF Init, ClockTypes
<1>2. LabelTypes
  BY Zenon DEF Init, LabelTypes
<1>3. CellTypes
  <2>1. numberOfRow = 0 /\ cells = <<>>
    BY Zenon DEF Init
  <2>2. numberOfRow \in Nat /\ DOMAIN cells = {}
    BY <2>1
  <2>. QED
    BY <2>2, Zenon DEF CellTypes
<1>. QED
  BY <1>1, <1>2, <1>3 DEF Types

\* A step that closes the screen.
LEMMA TypeClosed ==
    ASSUME Types, Closed, now' = now, allData' \in 0..MaxVersion, dayOfWeek' \in Days,
           currentDay' = currentDay, running' \in BOOLEAN, trapped' \in BOOLEAN,
           connectedAt' \in {0} \cup Instants
    PROVE  Types'
<1>1. ClockTypes'
  <2>1. opened' = NothingOpened
    BY DEF Closed, NothingOpened
  <2>. QED
    BY <2>1, NothingOpenedType, Zenon DEF Types, ClockTypes
<1>2. LabelTypes'
  BY Zenon DEF Types, LabelTypes, Closed
<1>3. CellTypes'
  <2>1. numberOfRow' = 0 /\ cells' = <<>>
    BY Zenon DEF Closed
  <2>2. numberOfRow' \in Nat /\ DOMAIN cells' = {}
    BY <2>1
  <2>. QED
    BY <2>2, Zenon DEF CellTypes
<1>. QED
  BY <1>1, <1>2, <1>3 DEF Types

\* A step that draws a cell.
LEMMA TypeDrawn ==
    ASSUME Types, NEW row \in 0..(numberOfRow - 1), NEW cell, CellType(cell),
           cells' = Drawn(cells, row, cell),
           UNCHANGED <<sharedVars, currentDay, running, fromStation, toStation, numberOfRow,
                       nextTimeValue, dayOfWeekLabel, opened, trapped, connectedAt>>
    PROVE  Types'
<1>1. /\ numberOfRow \in Nat /\ DOMAIN cells \in SUBSET (0..(numberOfRow - 1))
      /\ \A r \in DOMAIN cells : CellType(cells[r])
  BY DEF Types, CellTypes
<1>2. /\ DOMAIN cells' \in SUBSET (0..(numberOfRow - 1))
      /\ \A r \in DOMAIN cells' : CellType(cells'[r])
  BY <1>1, DrawnCells
<1>3. CellTypes'
  BY <1>1, <1>2 DEF CellTypes
<1>4. ClockTypes' /\ LabelTypes'
  BY Zenon DEF Types, ClockTypes, LabelTypes, sharedVars
<1>. QED
  BY <1>3, <1>4 DEF Types

\* A cell that is configured, and the sheet it is made from.
LEMMA ConfiguredCell ==
    ASSUME Types, NEW row \in 0..(numberOfRow - 1), ConfigureCell(row)
    PROVE  \E cur \in CellReadings :
               LET sheet == TimeSheet(allData, dayOfWeek, fromStation, toStation)
                   I     == Upcoming(sheet, cur)
               IN  /\ row \in Nat /\ sheet \in Seq(Times) /\ I \in SUBSET DOMAIN sheet
                   /\ RowInRange(sheet, I, row)
                   /\ cells' = Drawn(cells, row, RowCell(sheet, I, row))
<1>. DEFINE sheet == TimeSheet(allData, dayOfWeek, fromStation, toStation)
<1>1. SheetFound(allData, dayOfWeek, fromStation, toStation) /\ allData \in 0..MaxVersion
  BY DEF ConfigureCell, Types, ClockTypes
<1>2. sheet \in Seq(Times)
  BY <1>1, FoundSheet
<1>3. PICK cur \in CellReadings :
          /\ RowInRange(sheet, Upcoming(sheet, cur), row)
          /\ cells' = Drawn(cells, row, RowCell(sheet, Upcoming(sheet, cur), row))
  BY DEF ConfigureCell
<1>4. row \in Nat
  BY DEF Types, CellTypes
<1>5. Upcoming(sheet, cur) \in SUBSET DOMAIN sheet
  BY DEF Upcoming
<1>. HIDE DEF sheet
<1>. QED
  BY <1>2, <1>3, <1>4, <1>5 DEF sheet

LEMMA TypeStep == TypeOK /\ [Next]_vars => TypeOK'
<1>. SUFFICES ASSUME Types, [Next]_vars PROVE Types'
  BY TypeParts, TypePartsNext DEF Types
<1>1. CASE Tick
  <2>1. ClockTypes'
    BY <1>1, InstantsAssumption DEF Tick, Types, ClockTypes, screenVars
  <2>. QED
    BY <1>1, <2>1, Zenon DEF Tick, Types, LabelTypes, CellTypes, screenVars
<1>2. CASE StoreSchedule
  <2>1. ClockTypes'
    BY <1>2, MaxVersionAssumption DEF StoreSchedule, Types, ClockTypes, screenVars, Versions
  <2>. QED
    BY <1>2, <2>1, Zenon DEF StoreSchedule, Types, LabelTypes, CellTypes, screenVars
<1>3. CASE ConnectScene
  <2>1. now \in Int
    BY DEF Types, ClockTypes
  <2>2. dayOfWeek' \in Days
    BY <1>3, <2>1, DayTypes DEF ConnectScene
  <2>. QED
    BY <1>3, <2>2, TypeClosed DEF ConnectScene, Types, ClockTypes
<1>4. CASE Kill
  <2>1. allData' \in 0..MaxVersion
    BY <1>4, MaxVersionAssumption DEF Kill, Types, ClockTypes
  <2>. QED
    BY <1>4, <2>1, TypeClosed DEF Kill, Types, ClockTypes
<1>5. ASSUME NEW text \in Texts, NEW d \in Directions, OpenTimeVC(text, DirectionText[d])
      PROVE  Types'
  <2>. DEFINE to == DirectionText[d]
              sheet == TimeSheet(allData, dayOfWeek, text, to)
  <2>1. now \in Nat /\ now \in Instants /\ allData \in 0..MaxVersion
    BY DEF Types, ClockTypes
  <2>2. PICK curRows, curNext \in CurrentTimeFromStartDay(now) :
            /\ opened' = [at |-> now, cur |-> curRows, data |-> allData]
            /\ IF SheetFound(allData, dayOfWeek, text, to)
               THEN /\ numberOfRow' = RowCount(sheet, Upcoming(sheet, curRows))
                    /\ nextTimeValue' = NextTime(sheet, curNext)
               ELSE UNCHANGED <<numberOfRow, nextTimeValue>>
    BY <1>5 DEF OpenTimeVC
  <2>3. curRows \in -1..(Day - 1) /\ curNext \in Int
    BY <2>1, ClockReading
  <2>4. numberOfRow' \in Nat /\ nextTimeValue' \in {NoTime} \cup ((0..23) \X (0..59))
    <3>1. CASE SheetFound(allData, dayOfWeek, text, to)
      <4>1. sheet \in Seq(Times)
        BY <2>1, <3>1, FoundSheet
      <4>. HIDE DEF sheet
      <4>2. Upcoming(sheet, curRows) \in SUBSET DOMAIN sheet
        BY DEF Upcoming
      <4>3. RowCount(sheet, Upcoming(sheet, curRows)) \in Nat
        BY <4>1, <4>2, HoursOfSheet, FS_CardinalityType DEF RowCount
      <4>4. NextTime(sheet, curNext) \in {NoTime} \cup ((0..23) \X (0..59))
        BY <2>3, <4>1, NextTimeIs
      <4>. QED
        BY <2>2, <3>1, <4>3, <4>4
    <3>2. CASE ~SheetFound(allData, dayOfWeek, text, to)
      BY <2>2, <3>2, Zenon DEF Types, CellTypes, LabelTypes
    <3>. QED
      BY <3>1, <3>2
  <2>5. /\ currentDay' \in {""} \cup {DayNames[i] : i \in DOMAIN DayNames}
        /\ dayOfWeekLabel' \in {"", "weekend schedule", "friday schedule", "weekday schedule"}
    <3>1. CASE IsStationText(text)
      <4>1. currentDay' = GmtDayName(now) /\ dayOfWeekLabel' = DayOfWeekLabel(GmtDayName(now))
        BY <1>5, <3>1 DEF OpenTimeVC
      <4>2. now \in Int
        BY <2>1
      <4>. QED
        BY <4>1, <4>2, DayTypes, Zenon
    <3>2. CASE ~IsStationText(text)
      BY <1>5, <3>2, Zenon DEF OpenTimeVC, Types, LabelTypes
    <3>. QED
      BY <3>1, <3>2
  <2>6. opened' \in [at : {0} \cup Instants, cur : -1..(Day - 1), data : 0..MaxVersion]
    BY <2>1, <2>2, <2>3
  <2>7. /\ fromStation' = text /\ toStation' = to /\ cells' = <<>>
        /\ UNCHANGED <<now, allData, dayOfWeek, running, trapped, connectedAt>>
    BY <1>5 DEF OpenTimeVC, SetItems, sharedVars
  <2>8. ClockTypes'
    BY <2>6, <2>7, Zenon DEF Types, ClockTypes
  <2>9. LabelTypes'
    BY <2>4, <2>5, <2>7, Zenon DEF LabelTypes
  <2>10. CellTypes'
    BY <2>4, <2>7 DEF CellTypes
  <2>. QED
    BY <2>8, <2>9, <2>10 DEF Types
<1>6. ASSUME NEW row \in 0..(numberOfRow - 1), ConfigureCell(row) PROVE Types'
  <2>. DEFINE sheet == TimeSheet(allData, dayOfWeek, fromStation, toStation)
  <2>1. PICK cur \in CellReadings :
            /\ row \in Nat /\ sheet \in Seq(Times) /\ Upcoming(sheet, cur) \in SUBSET DOMAIN sheet
            /\ RowInRange(sheet, Upcoming(sheet, cur), row)
            /\ cells' = Drawn(cells, row, RowCell(sheet, Upcoming(sheet, cur), row))
    BY <1>6, ConfiguredCell
  <2>. HIDE DEF sheet
  <2>2. CellType(RowCell(sheet, Upcoming(sheet, cur), row))
    <3>. DEFINE cell == RowCell(sheet, Upcoming(sheet, cur), row)
    <3>1. cell.hour \in 0..23 /\ cell.minutes \in Seq(0..59)
      BY <2>1, RowCellShows
    <3>. HIDE DEF cell
    <3>2. CellType(cell)
      BY <3>1 DEF CellType
    <3>. QED
      BY <3>2 DEF cell
  <2>. QED
    BY <1>6, <2>1, <2>2, TypeDrawn DEF ConfigureCell
<1>7. ASSUME NEW row \in 0..(numberOfRow - 1), TrapInCell(row) PROVE Types'
  BY <1>7, Zenon DEF TrapInCell, Types, ClockTypes, LabelTypes, CellTypes, sharedVars, screenVars
<1>8. ASSUME NEW row \in 0..(numberOfRow - 1), ReuseCell(row) PROVE Types'
  <2>1. \A r \in DOMAIN cells : CellType(cells[r])
    BY DEF Types, CellTypes
  <2>2. PICK cell \in Reusable(cells) : cells' = Drawn(cells, row, cell)
    BY <1>8 DEF ReuseCell
  <2>3. CellType(cell)
    BY <2>1, ReusableCells
  <2>. QED
    BY <1>8, <2>2, <2>3, TypeDrawn DEF ReuseCell
<1>9. CASE Back
  BY <1>9, TypeClosed DEF Back, Types, ClockTypes, sharedVars
<1>10. CASE UNCHANGED vars
  BY <1>10, Zenon DEF vars, Types, ClockTypes, LabelTypes, CellTypes, sharedVars, screenVars
<1>. QED
  BY <1>1, <1>2, <1>3, <1>4, <1>5, <1>6, <1>7, <1>8, <1>9, <1>10 DEF Next

-----------------------------------------------------------------------------
(* What viewDidLoad left on the screen.                                    *)

Shown == NothingOpen /\ CountedRows /\ Heading /\ Announced

LEMMA ShownUnchanged ==
    ASSUME Shown, UNCHANGED <<dayOfWeek, fromStation, toStation, numberOfRow, nextTimeValue,
                              dayOfWeekLabel, opened>>
    PROVE  Shown'
  BY DEF Shown, NothingOpen, CountedRows, Heading, Announced, HasOpenedSheet, OpenedSheet,
     OpenedHours, IsOpen

LEMMA ShownClosed == ASSUME Closed PROVE Shown' /\ OpenedBefore' /\ ~IsOpen'
  BY DEF Closed, Shown, NothingOpen, CountedRows, Heading, Announced, HasOpenedSheet, IsOpen,
     OpenedBefore

\* A label without text names no station.
LEMMA NoStationWithoutText == ~IsStationText("")
  BY DEF IsStationText, Stations, StationText

LEMMA OpenedScreen ==
    ASSUME ClockTypes, Shown, NEW text, NEW to, OpenTimeVC(text, to)
    PROVE  Shown' /\ OpenedBefore'
<1>. DEFINE found == SheetFound(allData, dayOfWeek, text, to)
            sheet == TimeSheet(allData, dayOfWeek, text, to)
<1>1. PICK curRows, curNext \in CurrentTimeFromStartDay(now) :
          /\ curRows <= curNext
          /\ opened' = [at |-> now, cur |-> curRows, data |-> allData]
          /\ IF found
             THEN /\ numberOfRow' = RowCount(sheet, Upcoming(sheet, curRows))
                  /\ nextTimeValue' = NextTime(sheet, curNext)
             ELSE UNCHANGED <<numberOfRow, nextTimeValue>>
  BY DEF OpenTimeVC
<1>2. /\ fromStation' = text /\ toStation' = to
      /\ UNCHANGED <<now, allData, dayOfWeek>> /\ allData # NoData /\ ~IsOpen
  BY DEF OpenTimeVC, SetItems, sharedVars
<1>3. opened'.at = now /\ opened'.cur = curRows /\ opened'.data = allData
  BY <1>1
<1>4. numberOfRow = 0 /\ nextTimeValue = NoTime /\ dayOfWeekLabel = ""
  BY <1>2 DEF Shown, NothingOpen
<1>5. now \in Nat /\ allData \in 0..MaxVersion
  BY DEF ClockTypes
<1>6. found => IsStationText(text)
  BY DEF SheetFound
<1>7. IF IsStationText(text) THEN dayOfWeekLabel' = DayOfWeekLabel(GmtDayName(now))
                             ELSE UNCHANGED dayOfWeekLabel
  BY DEF OpenTimeVC
<1>8. (HasOpenedSheet' <=> text # "" /\ found) /\ OpenedSheet' = sheet
  BY <1>2, <1>3 DEF HasOpenedSheet, OpenedSheet, IsOpen
<1>9. OpenedHours' = HourSet(sheet, Upcoming(sheet, curRows))
  BY <1>3, <1>8 DEF OpenedHours
<1>. HIDE DEF found, sheet
<1>10. OpenedBefore'
  <2>1. allData \in 1..allData /\ now <= now
    BY <1>2, <1>5, MaxVersionAssumption DEF NoData
  <2>. QED
    BY <1>2, <1>3, <1>5, <2>1 DEF OpenedBefore
<1>11. NothingOpen'
  BY <1>1, <1>2, <1>4, <1>6, <1>7, NoStationWithoutText DEF NothingOpen, IsOpen
<1>12. CountedRows'
  BY <1>1, <1>2, <1>4, <1>8, <1>9 DEF CountedRows, IsOpen, RowCount
<1>13. Heading'
  BY <1>3, <1>4, <1>7 DEF Heading
<1>14. Announced'
  BY <1>1, <1>3, <1>8 DEF Announced
<1>. QED
  BY <1>10, <1>11, <1>12, <1>13, <1>14 DEF Shown

LEMMA ScreenInit == Init => ScreenInv
<1>. SUFFICES ASSUME Init PROVE ScreenInv
  OBVIOUS
<1>1. /\ ~IsOpen /\ ~running /\ ~trapped /\ numberOfRow = 0 /\ nextTimeValue = NoTime
      /\ dayOfWeekLabel = ""
  BY Zenon DEF Init, IsOpen
<1>. QED
  BY <1>1, TypeInit DEF ScreenInv, Connected, NothingOpen, OpenedBefore, CountedRows, Heading,
     Announced, HasOpenedSheet

LEMMA ScreenStep == ScreenInv /\ [Next]_vars => ScreenInv'
<1>. SUFFICES ASSUME ClockTypes, Connected, OpenedBefore, Shown, [Next]_vars
              PROVE  Connected' /\ OpenedBefore' /\ Shown'
  BY TypeStep, TypeParts DEF ScreenInv, Shown
<1>1. CASE Tick
  <2>1. now' \in Nat /\ now \in Nat /\ now < now'
    BY <1>1, InstantsAssumption DEF Tick, ClockTypes
  <2>2. OpenedBefore'
    <3>1. UNCHANGED <<fromStation, opened, allData>>
      BY <1>1 DEF Tick, screenVars
    <3>2. IsOpen => opened.at <= now'
      BY <2>1 DEF OpenedBefore
    <3>. QED
      BY <3>1, <3>2, Zenon DEF OpenedBefore, IsOpen
  <2>3. Connected'
    BY <1>1 DEF Tick, screenVars, Connected, IsOpen
  <2>. QED
    BY <1>1, <2>2, <2>3, ShownUnchanged DEF Tick, screenVars
<1>2. CASE StoreSchedule
  <2>1. allData' \in Nat /\ allData \in Nat /\ allData < allData'
    BY <1>2, MaxVersionAssumption DEF StoreSchedule, ClockTypes, Versions
  <2>2. OpenedBefore'
    <3>1. UNCHANGED <<fromStation, opened, now>>
      BY <1>2 DEF StoreSchedule, screenVars
    <3>2. IsOpen => opened.data \in 1..allData'
      BY <2>1 DEF OpenedBefore
    <3>. QED
      BY <3>1, <3>2, Zenon DEF OpenedBefore, IsOpen
  <2>3. Connected'
    BY <1>2 DEF StoreSchedule, screenVars, Connected, IsOpen
  <2>. QED
    BY <1>2, <2>2, <2>3, ShownUnchanged DEF StoreSchedule, screenVars
<1>3. CASE ConnectScene
  BY <1>3, ShownClosed DEF ConnectScene, Connected
<1>4. CASE Kill
  BY <1>4, ShownClosed DEF Kill, Connected
<1>5. ASSUME NEW text \in Texts, NEW d \in Directions, OpenTimeVC(text, DirectionText[d])
      PROVE  Connected' /\ OpenedBefore' /\ Shown'
  <2>1. Connected'
    BY <1>5 DEF OpenTimeVC, sharedVars, Connected
  <2>. QED
    BY <1>5, <2>1, OpenedScreen
<1>6. ASSUME NEW row \in 0..(numberOfRow - 1), ConfigureCell(row) \/ ReuseCell(row)
      PROVE  Connected' /\ OpenedBefore' /\ Shown'
  <2>1. UNCHANGED <<sharedVars, running, fromStation, toStation, numberOfRow, nextTimeValue,
                    dayOfWeekLabel, opened, trapped, connectedAt>>
    BY <1>6 DEF ConfigureCell, ReuseCell
  <2>2. Connected' /\ OpenedBefore'
    BY <2>1 DEF Connected, OpenedBefore, IsOpen, sharedVars
  <2>. QED
    BY <2>1, <2>2, ShownUnchanged DEF sharedVars
<1>7. ASSUME NEW row \in 0..(numberOfRow - 1), TrapInCell(row)
      PROVE  Connected' /\ OpenedBefore' /\ Shown'
  <2>1. Connected' /\ OpenedBefore'
    BY <1>7 DEF TrapInCell, Connected, OpenedBefore, IsOpen, sharedVars, screenVars
  <2>. QED
    BY <1>7, <2>1, ShownUnchanged DEF TrapInCell, sharedVars, screenVars
<1>8. CASE Back
  BY <1>8, ShownClosed DEF Back, sharedVars, Connected
<1>9. CASE UNCHANGED vars
  <2>1. Connected' /\ OpenedBefore'
    BY <1>9 DEF vars, Connected, OpenedBefore, IsOpen, sharedVars, screenVars
  <2>. QED
    BY <1>9, <2>1, ShownUnchanged DEF vars, sharedVars, screenVars
<1>. QED
  BY <1>1, <1>2, <1>3, <1>4, <1>5, <1>6, <1>7, <1>8, <1>9 DEF Next

LEMMA ScreenInvariance == Spec => []ScreenInv
  BY ScreenInit, ScreenStep, PTL DEF Spec

\* Every variable of the time screen keeps its type: the hours and minutes of
\* the cells, the label and the row count are always ones that can be shown.
THEOREM TypeCorrect == Spec => []TypeOK
<1>1. ScreenInv => TypeOK
  BY DEF ScreenInv
<1>. QED
  BY <1>1, ScreenInvariance, PTL

\* checkDayOfWeek writes the heading from the clock, the table is made from the
\* day stored at the connection of the scene: they differ only if the GMT day
\* changed in between.
THEOREM HeadingIsOfSchedule == Spec => []HeadingNamesSchedule
<1>1. ScreenInv => HeadingNamesSchedule
  <2>. SUFFICES ASSUME ScreenInv, dayOfWeekLabel # "",
                       GmtDayName(opened.at) = GmtDayName(connectedAt)
                PROVE  dayOfWeekLabel = [weekday |-> "weekday schedule",
                                         friday |-> "friday schedule",
                                         weekend |-> "weekend schedule"][dayOfWeek]
    BY DEF HeadingNamesSchedule
  <2>. DEFINE name == GmtDayName(connectedAt)
  <2>1. dayOfWeekLabel = DayOfWeekLabel(name)
    BY DEF ScreenInv, Heading
  <2>2. dayOfWeek = DayOfWeekKey(name)
    BY DEF ScreenInv, NothingOpen, Connected
  <2>. HIDE DEF name
  <2>. QED
    BY <2>1, <2>2 DEF DayOfWeekLabel, DayOfWeekKey
<1>. QED
  BY <1>1, ScreenInvariance, PTL

-----------------------------------------------------------------------------
(* The rows of the open screen.                                            *)

LEMMA SheetOfScreen ==
    ASSUME ScreenInv, HasOpenedSheet
    PROVE  /\ OpenedSheet \in Seq(Times) /\ Ascending(OpenedSheet)
           /\ now \in Nat /\ opened.at \in Nat /\ opened.at <= now
           /\ opened.cur \in Int /\ opened.cur \in CurrentTimeFromStartDay(opened.at)
           /\ opened.data \in 1..allData /\ allData \in Nat
           /\ numberOfRow = Cardinality(OpenedHours)
<1>1. ClockTypes /\ IsOpen
  BY TypeParts DEF ScreenInv, HasOpenedSheet
<1>2. opened.data \in 0..MaxVersion /\ now \in Nat /\ allData \in 0..MaxVersion
  BY <1>1 DEF ClockTypes
<1>3. SheetFound(opened.data, dayOfWeek, fromStation, toStation)
  BY DEF HasOpenedSheet
<1>4. OpenedSheet \in Seq(Times) /\ Ascending(OpenedSheet)
  BY <1>2, <1>3, FoundSheet DEF OpenedSheet
<1>5. /\ opened.at \in Nat /\ opened.at <= now
      /\ opened.cur \in CurrentTimeFromStartDay(opened.at) /\ opened.data \in 1..allData
  BY <1>1 DEF ScreenInv, OpenedBefore
<1>6. opened.cur \in Int
  BY <1>5, ClockReading
<1>7. numberOfRow = Cardinality(OpenedHours)
  BY <1>1 DEF ScreenInv, CountedRows
<1>8. allData \in Nat
  BY <1>2, MaxVersionAssumption
<1>. QED
  BY <1>2, <1>4, <1>5, <1>6, <1>7, <1>8

\* A later reading of the clock finds the counted hours, unless one of them passed.
LEMMA LaterReading ==
    ASSUME ScreenInv, HasOpenedSheet, NEW cur \in CellReadings, ~HourPassed
    PROVE  /\ cur \in Int /\ now % Day \in Int /\ cur <= now % Day
           /\ OpenedHours \in SUBSET HourSet(OpenedSheet, Upcoming(OpenedSheet, cur))
<1>1. OpenedSheet \in Seq(Times) /\ now \in Nat
  BY SheetOfScreen
<1>2. cur \in CurrentTimeFromStartDay(now)
  BY DEF CellReadings
<1>3. cur \in Int /\ now % Day \in Int /\ cur <= now % Day
  BY <1>1, <1>2, ClockReading
<1>4. HourSet(OpenedSheet, Upcoming(OpenedSheet, now % Day))
        \in SUBSET HourSet(OpenedSheet, Upcoming(OpenedSheet, cur))
  BY <1>1, <1>3, UpcomingShrinks
<1>5. OpenedHours \in SUBSET HourSet(OpenedSheet, Upcoming(OpenedSheet, now % Day))
  BY DEF HourPassed
<1>. QED
  BY <1>3, <1>4, <1>5

\* On the day of viewDidLoad it finds no other hour.
LEMMA SameHours ==
    ASSUME ScreenInv, HasOpenedSheet, NEW cur \in CellReadings, ~HourPassed,
           now \div Day = opened.at \div Day
    PROVE  OpenedHours = HourSet(OpenedSheet, Upcoming(OpenedSheet, cur))
<1>1. /\ OpenedSheet \in Seq(Times) /\ now \in Nat /\ opened.at \in Nat /\ opened.at <= now
      /\ opened.cur \in Int /\ opened.cur \in CurrentTimeFromStartDay(opened.at)
  BY SheetOfScreen
<1>2. cur \in CurrentTimeFromStartDay(now) /\ (now = opened.at => cur >= opened.cur)
  BY DEF CellReadings
<1>3. cur \in Int /\ cur >= opened.cur
  <2>1. cur \in Int /\ (cur = now % Day \/ now % Day = 0) /\ now % Day \in Int
    BY <1>1, <1>2, ClockReading
  <2>2. opened.at % Day \in Int /\ 0 <= opened.at % Day /\ opened.cur <= opened.at % Day
    BY <1>1, ClockReading
  <2>3. CASE now = opened.at
    BY <1>2, <2>1, <2>3
  <2>4. CASE opened.at < now
    <3>1. opened.at % Day < now % Day
      BY <1>1, <2>4, SameDay
    <3>. QED
      BY <1>1, <2>1, <2>2, <3>1
  <2>. QED
    BY <1>1, <2>3, <2>4
<1>4. HourSet(OpenedSheet, Upcoming(OpenedSheet, cur)) \in SUBSET OpenedHours
  BY <1>1, <1>3, UpcomingShrinks DEF OpenedHours
<1>5. OpenedHours \in SUBSET HourSet(OpenedSheet, Upcoming(OpenedSheet, cur))
  BY LaterReading
<1>. QED
  BY <1>4, <1>5

\* While the schedule of viewDidLoad is stored, its sheet is the one cells show.
LEMMA SheetOfCells ==
    ASSUME allData = opened.data, IsOpen
    PROVE  /\ SheetFound(allData, dayOfWeek, fromStation, toStation) <=> HasOpenedSheet
           /\ TimeSheet(allData, dayOfWeek, fromStation, toStation) = OpenedSheet
  BY DEF HasOpenedSheet, OpenedSheet

\* configureTimeSheetTableViewCell takes hours[row] of a new computation of the
\* hours: the process ends there only after an hour has passed on the open screen
\* or a download replaced the schedule the rows were counted from.
THEOREM TrapNeedsDeparture == Spec => NoTrapBeforeDeparture
<1>1. ScreenInv /\ [Next]_vars =>
          [trapped' /\ ~trapped => allData # opened.data \/ HourPassed]_vars
  <2>. SUFFICES ASSUME ScreenInv, [Next]_vars, trapped', ~trapped, allData = opened.data,
                       ~HourPassed
                PROVE  FALSE
    OBVIOUS
  <2>1. PICK row \in 0..(numberOfRow - 1) : TrapInCell(row)
    BY DEF Next, vars, Tick, StoreSchedule, ConnectScene, Kill, OpenTimeVC, ConfigureCell,
       ReuseCell, Back
  <2>2. HasOpenedSheet
    BY <2>1, SheetOfCells DEF TrapInCell
  <2>3. PICK cur \in CellReadings : ~RowInRange(OpenedSheet, Upcoming(OpenedSheet, cur), row)
    BY <2>1, <2>2, SheetOfCells DEF TrapInCell, HasOpenedSheet
  <2>. DEFINE hours == HourSet(OpenedSheet, Upcoming(OpenedSheet, cur))
  <2>4. OpenedHours \in SUBSET hours
    BY <2>2, LaterReading
  <2>5. IsFiniteSet(hours)
    <3>1. Upcoming(OpenedSheet, cur) \in SUBSET DOMAIN OpenedSheet
      BY DEF Upcoming
    <3>. QED
      BY <2>2, <3>1, SheetOfScreen, HoursOfSheet
  <2>6. numberOfRow = Cardinality(OpenedHours)
    BY <2>2, SheetOfScreen
  <2>7. ~(row < Cardinality(hours))
    BY <2>3 DEF RowInRange
  <2>. HIDE DEF hours
  <2>8. Cardinality(OpenedHours) <= Cardinality(hours) /\ IsFiniteSet(OpenedHours)
    BY <2>4, <2>5, FS_Subset
  <2>9. Cardinality(OpenedHours) \in Nat /\ Cardinality(hours) \in Nat
    BY <2>5, <2>8, FS_CardinalityType
  <2>. QED
    BY <2>1, <2>6, <2>7, <2>8, <2>9
<1>. QED
  BY <1>1, ScreenInvariance, PTL DEF Spec, NoTrapBeforeDeparture

-----------------------------------------------------------------------------
(* What the rows show.                                                     *)

\* A cell shows the hour of its row with all the minutes after the time t.
Kept(cell, row, sheet, hours, t) ==
    /\ cell.hour = HourOfRow(hours, row) % 24
    /\ \A i \in Upcoming(sheet, t) :
          sheet[i] \div Hour = HourOfRow(hours, row) =>
              \E k \in DOMAIN cell.minutes : cell.minutes[k] = HHmm(sheet[i])[2]

Unspoilt ==
    /\ HasOpenedSheet
    /\ allData = opened.data
    /\ now \div Day = opened.at \div Day
    /\ ~HourPassed

LEMMA RowsKept ==
    RowsKeepTheirHour <=>
        (Unspoilt => \A row \in DOMAIN cells :
                         Kept(cells[row], row, OpenedSheet, OpenedHours, now % Day))
  BY Zenon DEF RowsKeepTheirHour, Unspoilt, Kept

LEMMA RowsKeptNext ==
    ASSUME Unspoilt' => \A row \in DOMAIN cells' :
               Kept(cells'[row], row, OpenedSheet', OpenedHours', now' % Day)
    PROVE  RowsKeepTheirHour'
  BY Zenon DEF RowsKeepTheirHour, Unspoilt, Kept

LEMMA CellKept ==
    ASSUME NEW sheet \in Seq(Times), NEW cur \in Int, NEW t \in Int, cur <= t,
           NEW row \in Nat, RowInRange(sheet, Upcoming(sheet, cur), row)
    PROVE  Kept(RowCell(sheet, Upcoming(sheet, cur), row), row, sheet,
                HourSet(sheet, Upcoming(sheet, cur)), t)
<1>. DEFINE I == Upcoming(sheet, cur)
            cell == RowCell(sheet, I, row)
            hour == HourOfRow(HourSet(sheet, I), row)
<1>1. I \in SUBSET DOMAIN sheet /\ Upcoming(sheet, t) \in SUBSET I
  BY UpcomingShrinks
<1>. HIDE DEF I
<1>2. /\ cell.hour = hour % 24
      /\ \A i \in RowPositions(sheet, I, row) : \E k \in DOMAIN cell.minutes :
             cell.minutes[k] = MinuteOf(sheet[i])
  BY <1>1, RowCellShows DEF I
<1>3. \A i \in I : sheet[i] \div Hour = hour => i \in RowPositions(sheet, I, row)
  BY DEF RowPositions
<1>4. \A i : HHmm(sheet[i])[2] = MinuteOf(sheet[i])
  BY DEF HHmm, MinuteOf
<1>. HIDE DEF cell, hour
<1>5. \A i \in Upcoming(sheet, t) :
          sheet[i] \div Hour = hour =>
              \E k \in DOMAIN cell.minutes : cell.minutes[k] = HHmm(sheet[i])[2]
  BY <1>1, <1>2, <1>3, <1>4
<1>. QED
  BY <1>2, <1>5 DEF Kept, cell, hour, I

\* Later the cell still does: the remaining departures become fewer.
LEMMA KeptLater ==
    ASSUME NEW sheet \in Seq(Times), NEW t \in Int, NEW u \in Int, t <= u,
           NEW cell, NEW row, NEW hours, Kept(cell, row, sheet, hours, t)
    PROVE  Kept(cell, row, sheet, hours, u)
<1>1. Upcoming(sheet, u) \in SUBSET Upcoming(sheet, t)
  BY UpcomingShrinks
<1>. QED
  BY <1>1, Zenon DEF Kept

LEMMA RowsStep == ScreenInv /\ RowsKeepTheirHour /\ [Next]_vars => RowsKeepTheirHour'
<1>. SUFFICES ASSUME ScreenInv, RowsKeepTheirHour, [Next]_vars, Unspoilt',
                     NEW row \in DOMAIN cells'
              PROVE  Kept(cells'[row], row, OpenedSheet', OpenedHours', now' % Day)
  BY RowsKeptNext
<1>. DEFINE screenKept == UNCHANGED <<dayOfWeek, fromStation, toStation, opened>>
<1>1. ASSUME screenKept, UNCHANGED <<allData, cells>>, now <= now', now' \in Nat
      PROVE  Kept(cells'[row], row, OpenedSheet', OpenedHours', now' % Day)
  <2>1. /\ (HasOpenedSheet' <=> HasOpenedSheet)
        /\ OpenedSheet' = OpenedSheet /\ OpenedHours' = OpenedHours
    BY <1>1 DEF HasOpenedSheet, OpenedSheet, OpenedHours, IsOpen
  <2>2. HasOpenedSheet
    BY <2>1 DEF Unspoilt
  <2>3. OpenedSheet \in Seq(Times) /\ now \in Nat /\ opened.at \in Nat /\ opened.at <= now
    BY <2>2, SheetOfScreen
  <2>4. now \div Day = now' \div Day /\ now \div Day = opened.at \div Day
    <3>1. now' \div Day = opened.at \div Day
      BY <1>1 DEF Unspoilt
    <3>2. /\ opened.at \div Day <= now \div Day /\ now \div Day <= now' \div Day
          /\ opened.at \div Day \in Int /\ now \div Day \in Int
      BY <1>1, <2>3, DaysGrow
    <3>. QED
      BY <3>1, <3>2
  <2>5. now % Day \in Int /\ now' % Day \in Int /\ now % Day <= now' % Day
    BY <1>1, <2>3, <2>4, SameDay, TimeOfDay
  <2>6. ~HourPassed
    <3>1. OpenedHours \in SUBSET HourSet(OpenedSheet, Upcoming(OpenedSheet, now' % Day))
      BY <2>1 DEF Unspoilt, HourPassed
    <3>2. HourSet(OpenedSheet, Upcoming(OpenedSheet, now' % Day))
            \in SUBSET HourSet(OpenedSheet, Upcoming(OpenedSheet, now % Day))
      BY <2>3, <2>5, UpcomingShrinks
    <3>. QED
      BY <3>1, <3>2 DEF HourPassed
  <2>7. Unspoilt
    BY <1>1, <2>2, <2>4, <2>6 DEF Unspoilt
  <2>8. Kept(cells[row], row, OpenedSheet, OpenedHours, now % Day)
    BY <1>1, <2>7, RowsKept
  <2>. QED
    BY <1>1, <2>1, <2>3, <2>5, <2>8, KeptLater
<1>2. CASE Tick
  <2>1. now <= now' /\ now' \in Nat
    BY <1>2, TypeParts, InstantsAssumption DEF Tick, ScreenInv, ClockTypes
  <2>. QED
    BY <1>1, <1>2, <2>1 DEF Tick, screenVars
<1>3. CASE StoreSchedule
  <2>1. fromStation' = fromStation /\ opened' = opened /\ allData' \in Versions /\ allData' > allData
    BY <1>3 DEF StoreSchedule, screenVars
  <2>2. IsOpen /\ allData' = opened.data
    BY <2>1 DEF Unspoilt, HasOpenedSheet, IsOpen
  <2>3. opened.data \in 1..allData
    BY <2>2 DEF ScreenInv, OpenedBefore
  <2>4. allData \in Int
    BY TypeParts DEF ScreenInv, ClockTypes
  <2>. QED
    BY <2>1, <2>2, <2>3, <2>4
<1>4. CASE ConnectScene \/ Kill \/ Back
  BY <1>4, ShownClosed DEF ConnectScene, Kill, Back, Unspoilt, HasOpenedSheet
<1>5. ASSUME NEW text \in Texts, NEW d \in Directions, OpenTimeVC(text, DirectionText[d])
      PROVE  FALSE
  <2>1. cells' = <<>>
    BY <1>5 DEF OpenTimeVC, SetItems
  <2>. QED
    BY <2>1
<1>6. ASSUME NEW drawn \in 0..(numberOfRow - 1), ConfigureCell(drawn) \/ ReuseCell(drawn)
      PROVE  Kept(cells'[row], row, OpenedSheet', OpenedHours', now' % Day)
  <2>1. screenKept /\ UNCHANGED <<now, allData>>
    BY <1>6 DEF ConfigureCell, ReuseCell, sharedVars
  <2>2. /\ Unspoilt /\ OpenedSheet' = OpenedSheet /\ OpenedHours' = OpenedHours
    BY <2>1 DEF Unspoilt, HasOpenedSheet, HourPassed, OpenedSheet, OpenedHours, IsOpen
  <2>3. /\ HasOpenedSheet /\ SheetFound(allData, dayOfWeek, fromStation, toStation)
        /\ TimeSheet(allData, dayOfWeek, fromStation, toStation) = OpenedSheet
    BY <2>2, SheetOfCells DEF Unspoilt, HasOpenedSheet
  <2>4. ConfigureCell(drawn) /\ Types
    BY <1>6, <2>3, TypeParts DEF ReuseCell, ScreenInv, Types
  <2>5. PICK cur \in CellReadings :
            /\ drawn \in Nat
            /\ RowInRange(OpenedSheet, Upcoming(OpenedSheet, cur), drawn)
            /\ cells' = Drawn(cells, drawn,
                              RowCell(OpenedSheet, Upcoming(OpenedSheet, cur), drawn))
    BY <2>3, <2>4, ConfiguredCell
  <2>6. row \in DOMAIN cells \cup {drawn}
    BY <2>5 DEF Drawn
  <2>7. CASE row = drawn
    <3>1. cells'[row] = RowCell(OpenedSheet, Upcoming(OpenedSheet, cur), drawn)
      BY <2>5, <2>7 DEF Drawn
    <3>2. OpenedHours = HourSet(OpenedSheet, Upcoming(OpenedSheet, cur))
      BY <2>2, SameHours DEF Unspoilt
    <3>3. cur \in Int /\ now % Day \in Int /\ cur <= now % Day /\ OpenedSheet \in Seq(Times)
      BY <2>2, LaterReading, SheetOfScreen DEF Unspoilt
    <3>4. Kept(RowCell(OpenedSheet, Upcoming(OpenedSheet, cur), drawn), drawn, OpenedSheet,
               HourSet(OpenedSheet, Upcoming(OpenedSheet, cur)), now % Day)
      BY <2>5, <3>3, CellKept
    <3>. QED
      BY <2>1, <2>2, <2>7, <3>1, <3>2, <3>4
  <2>8. CASE row # drawn
    <3>1. row \in DOMAIN cells /\ cells'[row] = cells[row]
      BY <2>5, <2>6, <2>8 DEF Drawn
    <3>. QED
      BY <2>1, <2>2, <3>1, RowsKept
  <2>. QED
    BY <2>7, <2>8
<1>7. CASE UNCHANGED <<sharedVars, screenVars>>
  <2>1. now <= now' /\ now' \in Nat
    BY <1>7, TypeParts DEF ScreenInv, ClockTypes, sharedVars
  <2>. QED
    BY <1>1, <1>7, <2>1 DEF sharedVars, screenVars
<1>8. \A r \in 0..(numberOfRow - 1) : TrapInCell(r) => UNCHANGED <<sharedVars, screenVars>>
  BY DEF TrapInCell
<1>. QED
  BY <1>2, <1>3, <1>4, <1>5, <1>6, <1>7, <1>8 DEF Next, vars

\* Although hours, minutes and row count come from three readings of the clock,
\* a row drawn at any moment shows the hour it was counted for with all the trains
\* of that hour still to leave, until an hour has passed, midnight or a download.
THEOREM RowsKeepHour == Spec => []RowsKeepTheirHour
<1>1. Init => RowsKeepTheirHour
  BY DEF Init, RowsKeepTheirHour, HasOpenedSheet, IsOpen
<1>. QED
  BY <1>1, ScreenInvariance, RowsStep, PTL DEF Spec

-----------------------------------------------------------------------------
(* The label and the table.                                                *)

\* The condition of the property, and what its first row must show.
Fresh ==
    /\ opened.cur >= AfterMidnight
    /\ HasOpenedSheet
    /\ allData = opened.data
    /\ now = opened.at

Leads(value, table) == 0 \in DOMAIN table => value = <<table[0].hour, table[0].minutes[1]>>

\* While the screen is fresh the clock has one reading.
LEMMA FreshReading ==
    ASSUME ScreenInv, Fresh
    PROVE  /\ OpenedSheet \in Seq(Times) /\ Ascending(OpenedSheet)
           /\ opened.cur \in Int /\ opened.cur < Day
           /\ nextTimeValue = NextTime(OpenedSheet, opened.cur)
           /\ numberOfRow = RowCount(OpenedSheet, Upcoming(OpenedSheet, opened.cur))
           /\ \A cur \in CellReadings : cur = opened.cur
<1>1. /\ HasOpenedSheet /\ opened.cur >= AfterMidnight /\ now = opened.at
  BY DEF Fresh
<1>2. /\ OpenedSheet \in Seq(Times) /\ Ascending(OpenedSheet)
      /\ now \in Nat /\ opened.cur \in CurrentTimeFromStartDay(now)
      /\ numberOfRow = Cardinality(OpenedHours)
  BY <1>1, SheetOfScreen
<1>4. /\ opened.cur \in -1..(Day - 1)
      /\ opened.cur = now % Day \/ (opened.cur = -1 /\ now % Day = 0)
      /\ now % Day \in 0..(Day - 1)
  BY <1>2, ClockReading
<1>5. Day \in Nat /\ AfterMidnight \in Nat /\ 0 < AfterMidnight
  BY Constants
<1>6. opened.cur \in Int /\ opened.cur < Day /\ opened.cur = now % Day /\ now % Day # 0
  BY <1>1, <1>4, <1>5
<1>7. \A cur \in CellReadings : cur = opened.cur
  BY <1>6 DEF CellReadings, CurrentTimeFromStartDay
<1>8. nextTimeValue = NextTime(OpenedSheet, opened.cur)
  BY <1>1, <1>6 DEF ScreenInv, Announced, CurrentTimeFromStartDay
<1>. QED
  BY <1>2, <1>6, <1>7, <1>8 DEF RowCount, OpenedHours

LEMMA LabelLeadsIf ==
    ASSUME ScreenInv, Fresh => Leads(nextTimeValue, cells)
    PROVE  LabelLeadsTableByDay
<1>. SUFFICES ASSUME Fresh
              PROVE  /\ (nextTimeValue = NoTime) = (numberOfRow = 0)
                     /\ Leads(nextTimeValue, cells)
  BY Zenon DEF LabelLeadsTableByDay, LabelLeadsTable, Fresh, Leads
<1>1. nextTimeValue = NoTime <=> numberOfRow = 0
  <2>1. opened.cur >= AfterMidnight
    BY DEF Fresh
  <2>. QED
    BY <2>1, FreshReading, AnnouncedIfRows
<1>. QED
  BY <1>1

\* No step spoils it: a cell drawn on a fresh screen is drawn from the departures
\* that the label was computed from.
LEMMA LeadsStep ==
    ScreenInv /\ [Next]_vars /\ (Fresh => Leads(nextTimeValue, cells))
        => (Fresh' => Leads(nextTimeValue', cells'))
<1>. SUFFICES ASSUME ScreenInv, [Next]_vars, Fresh => Leads(nextTimeValue, cells), Fresh'
              PROVE  Leads(nextTimeValue', cells')
  OBVIOUS
<1>1. CASE UNCHANGED <<sharedVars, screenVars>>
  <2>1. Fresh
    BY <1>1 DEF Fresh, HasOpenedSheet, IsOpen, sharedVars, screenVars
  <2>. QED
    BY <1>1, <2>1 DEF screenVars
<1>2. CASE Tick
  <2>1. now' > now /\ UNCHANGED <<dayOfWeek, allData, fromStation, toStation, opened>>
    BY <1>2 DEF Tick, screenVars
  <2>2. HasOpenedSheet /\ now' = opened.at
    BY <2>1 DEF Fresh, HasOpenedSheet, IsOpen
  <2>3. opened.at <= now /\ now \in Nat /\ opened.at \in Nat
    BY <2>2, SheetOfScreen
  <2>. QED
    BY <2>1, <2>2, <2>3
<1>3. CASE StoreSchedule
  <2>1. allData' > allData /\ UNCHANGED <<dayOfWeek, fromStation, toStation, opened>>
    BY <1>3 DEF StoreSchedule, screenVars
  <2>2. HasOpenedSheet /\ allData' = opened.data
    BY <2>1 DEF Fresh, HasOpenedSheet, IsOpen
  <2>3. opened.data \in 1..allData /\ allData \in Nat
    BY <2>2, SheetOfScreen
  <2>. QED
    BY <2>1, <2>2, <2>3
<1>4. CASE ConnectScene \/ Kill \/ Back
  BY <1>4, ShownClosed DEF ConnectScene, Kill, Back, Fresh, HasOpenedSheet
<1>5. ASSUME NEW text \in Texts, NEW d \in Directions, OpenTimeVC(text, DirectionText[d])
      PROVE  Leads(nextTimeValue', cells')
  <2>1. cells' = <<>>
    BY <1>5 DEF OpenTimeVC, SetItems
  <2>2. 0 \notin DOMAIN cells'
    BY <2>1
  <2>. QED
    BY <2>2 DEF Leads
<1>6. ASSUME NEW drawn \in 0..(numberOfRow - 1), ConfigureCell(drawn) \/ ReuseCell(drawn)
      PROVE  Leads(nextTimeValue', cells')
  <2>1. UNCHANGED <<now, allData, dayOfWeek, fromStation, toStation, opened, nextTimeValue>>
    BY <1>6 DEF ConfigureCell, ReuseCell, sharedVars
  <2>2. Fresh
    BY <2>1 DEF Fresh, HasOpenedSheet, IsOpen
  <2>3. /\ HasOpenedSheet /\ SheetFound(allData, dayOfWeek, fromStation, toStation)
        /\ TimeSheet(allData, dayOfWeek, fromStation, toStation) = OpenedSheet
    BY <2>2, SheetOfCells DEF Fresh, HasOpenedSheet
  <2>4. ConfigureCell(drawn) /\ Types
    BY <1>6, <2>3, TypeParts DEF ReuseCell, ScreenInv, Types
  <2>5. PICK cur \in CellReadings :
            /\ drawn \in Nat
            /\ RowInRange(OpenedSheet, Upcoming(OpenedSheet, cur), drawn)
            /\ cells' = Drawn(cells, drawn,
                              RowCell(OpenedSheet, Upcoming(OpenedSheet, cur), drawn))
    BY <2>3, <2>4, ConfiguredCell
  <2>6. CASE drawn = 0
    <3>1. cur = opened.cur /\ cur \in Int /\ cur < Day /\ cur >= AfterMidnight
      BY <2>2, FreshReading DEF Fresh
    <3>2. nextTimeValue = <<RowCell(OpenedSheet, Upcoming(OpenedSheet, cur), 0).hour,
                            RowCell(OpenedSheet, Upcoming(OpenedSheet, cur), 0).minutes[1]>>
      BY <2>2, <2>5, <2>6, <3>1, FreshReading, AnnouncedRow
    <3>3. cells'[0] = RowCell(OpenedSheet, Upcoming(OpenedSheet, cur), 0)
      BY <2>5, <2>6 DEF Drawn
    <3>. QED
      BY <2>1, <3>2, <3>3 DEF Leads
  <2>7. CASE drawn # 0
    <3>1. 0 \in DOMAIN cells' => 0 \in DOMAIN cells /\ cells'[0] = cells[0]
      BY <2>5, <2>7 DEF Drawn
    <3>. QED
      BY <2>1, <2>2, <3>1 DEF Leads
  <2>. QED
    BY <2>6, <2>7
<1>7. \A r \in 0..(numberOfRow - 1) : TrapInCell(r) => UNCHANGED <<sharedVars, screenVars>>
  BY DEF TrapInCell
<1>. QED
  BY <1>1, <1>2, <1>3, <1>4, <1>5, <1>6, <1>7 DEF Next, vars

\* The label and the table come from two computations, one in viewDidLoad and one
\* in the cells: on a fresh screen outside the first 25 minutes of a day they start
\* with the same train, and the label is empty exactly when the table is.
THEOREM LabelLeads == Spec => []LabelLeadsTableByDay
<1>. DEFINE Agree == Fresh => Leads(nextTimeValue, cells)
<1>1. Init => Agree
  BY DEF Init, Fresh, HasOpenedSheet, IsOpen
<1>2. ScreenInv /\ Agree /\ [Next]_vars => Agree'
  BY LeadsStep
<1>3. ScreenInv /\ Agree => LabelLeadsTableByDay
  BY LabelLeadsIf
<1>. QED
  BY <1>1, <1>2, <1>3, ScreenInvariance, PTL DEF Spec

-----------------------------------------------------------------------------
(* The announced train and the calendar.  Both hold where the device's zone is *)
(* east of GMT by at least the 25 minutes in which the service day goes on.   *)

EastOfGmt == TzOffset \in AfterMidnight..(Day - 1)

\* The day of the GMT calendar, whose schedule is shown.
GmtDay(t) == (t - TzOffset) \div Day

LEMMA HHmmOfDay == ASSUME NEW d \in Int, NEW t \in Int PROVE HHmm(d * Day + t) = HHmm(t)
<1>1. (d * Day + t) \div Hour = 24 * d + t \div Hour /\ (d * Day + t) % Hour = t % Hour
  BY SMT DEF Day, Hour
<1>2. t \div Hour \in Int
  BY SMT DEF Hour
<1>3. \A q \in Int : (24 * d + q) % 24 = q % 24
  BY SMT
<1>. QED
  BY <1>1, <1>2, <1>3 DEF HHmm

LEMMA DaysApart ==
    ASSUME NEW d \in Int, NEW g \in Int
    PROVE  /\ d * Day \in Int /\ g * Day \in Int
           /\ d < g => d * Day + Day <= g * Day
  BY SMT DEF Day, Hour

LEMMA DayOfTime ==
    ASSUME NEW t \in Int
    PROVE  /\ t \div Day \in Int
           /\ (t \div Day) * Day <= t /\ t < (t \div Day) * Day + Day
           /\ t % Day = t - (t \div Day) * Day
<1>1. t \div Day \in Int
  BY SMT DEF Day, Hour
<1>2. (t \div Day) * Day <= t /\ t < (t \div Day) * Day + Day
  BY SMT DEF Day, Hour
<1>3. t % Day = t - (t \div Day) * Day
  BY SMT DEF Day, Hour
<1>. QED
  BY <1>1, <1>2, <1>3

\* A time is before or after the start of a day as its own day is.
LEMMA DayCompare ==
    ASSUME NEW t \in Int, NEW d \in Int
    PROVE  d * Day <= t => d <= t \div Day
  BY SMT DEF Day, Hour

LEMMA NameOfGmtDay == ASSUME NEW t \in Int PROVE GmtDayName(t) = DayName(GmtDay(t) * Day)
<1>1. t - TzOffset \in Int
  BY TzOffsetAssumption
<1>2. \A u \in Int : ((u \div Day) * Day) \div Day = u \div Day
  BY SMT DEF Day, Hour
<1>. QED
  BY <1>1, <1>2 DEF GmtDayName, DayName, GmtDay

\* Outside the excluded hours the time setNextTime counts from the day before is
\* the one that belongs to the GMT day, but for a midnight between its readings.
LEMMA ServiceClock ==
    ASSUME EastOfGmt, NEW t \in Nat, NEW cur \in CurrentTimeFromStartDay(t),
           t % Day \notin AfterMidnight..(TzOffset - 1)
    PROVE  /\ GmtDay(t) \in Int /\ GmtDay(t) \in (t \div Day - 1)..(t \div Day)
           /\ GmtDay(t) * Day \in Int /\ t >= GmtDay(t) * Day + TzOffset
           /\ \/ ServiceTime(cur) = t - GmtDay(t) * Day
              \/ ServiceTime(cur) = t - GmtDay(t) * Day - 1 /\ t % Day = 0
<1>. DEFINE g == GmtDay(t)
            d == t \div Day
            s == t % Day
<1>1. /\ Day \in Nat /\ AfterMidnight \in Nat /\ 0 < AfterMidnight /\ AfterMidnight < Day
      /\ TzOffset \in Int /\ AfterMidnight <= TzOffset /\ TzOffset < Day
  BY Constants DEF EastOfGmt
<1>2. d \in Int /\ s \in 0..(Day - 1) /\ d * Day \in Int /\ t = d * Day + s
  <2>1. t \in Int /\ s \in 0..(Day - 1)
    BY TimeOfDay
  <2>2. d \in Int /\ s = t - d * Day
    BY <2>1, DayOfTime, Zenon
  <2>3. d * Day \in Int
    BY <2>2, DaysApart
  <2>. HIDE DEF d, s
  <2>4. t = d * Day + s
    BY <2>1, <2>2, <2>3
  <2>. QED
    BY <2>1, <2>2, <2>3, <2>4
<1>3. g \in Int /\ g * Day \in Int /\ g * Day <= t - TzOffset /\ t - TzOffset < g * Day + Day
  BY <1>1, DayOfTime, DaysApart DEF GmtDay
<1>4. cur = s \/ (cur = -1 /\ s = 0)
  BY ClockReading
<1>. HIDE DEF g, d, s
<1>5. s < AfterMidnight \/ s >= TzOffset
  BY <1>1, <1>2 DEF s
<1>6. CASE s >= TzOffset
  <2>1. g = d
    <3>1. ~(g < d)
      BY <1>1, <1>2, <1>3, <1>6, DaysApart
    <3>2. ~(d < g)
      BY <1>1, <1>2, <1>3, <1>6, DaysApart
    <3>. QED
      BY <1>2, <1>3, <3>1, <3>2
  <2>2. cur = s /\ ServiceTime(cur) = cur
    BY <1>1, <1>2, <1>4, <1>6 DEF ServiceTime
  <2>. QED
    BY <1>1, <1>2, <1>3, <2>1, <2>2 DEF g, d, s
<1>7. CASE s < AfterMidnight
  <2>0. (d - 1) * Day = d * Day - Day /\ d - 1 \in Int
    BY <1>2, SMT DEF Day, Hour
  <2>1. g = d - 1
    <3>1. ~(g < d - 1)
      BY <1>1, <1>2, <1>3, <1>7, <2>0, DaysApart
    <3>2. ~(d - 1 < g)
      <4>1. d - 1 < g => d * Day <= g * Day
        BY <1>1, <1>3, <2>0, DaysApart, <1>2
      <4>. QED
        BY <1>1, <1>2, <1>3, <1>7, <4>1
    <3>. QED
      BY <1>2, <1>3, <2>0, <3>1, <3>2
  <2>2. cur \in Int /\ cur < AfterMidnight
    BY <1>1, <1>2, <1>4, <1>7
  <2>3. ServiceTime(cur) = cur + Day
    BY <2>2 DEF ServiceTime
  <2>4. g * Day = d * Day - Day
    BY <2>0, <2>1
  <2>5. ServiceTime(cur) = t - g * Day \/ (ServiceTime(cur) = t - g * Day - 1 /\ s = 0)
    BY <1>1, <1>2, <1>3, <1>4, <2>3, <2>4
  <2>6. t >= g * Day + TzOffset
    BY <1>1, <1>2, <1>3
  <2>7. g \in (d - 1)..d
    BY <1>2, <1>3, <2>1
  <2>. QED
    BY <1>3, <2>5, <2>6, <2>7 DEF g, d, s
<1>. QED
  BY <1>5, <1>6, <1>7

\* The train setNextTime announces, on the day g of the schedule.
LEMMA AnnouncedTime ==
    ASSUME NEW sheet \in Seq(Times), Ascending(sheet), NEW cur \in Int, NEW g \in Int
    PROVE  \/ NextTime(sheet, cur) = NoTime /\ \A j \in DOMAIN sheet : sheet[j] <= ServiceTime(cur)
           \/ /\ NextTime(sheet, cur) # NoTime
              /\ \E i \in DOMAIN sheet :
                     /\ sheet[i] > ServiceTime(cur)
                     /\ NextTime(sheet, cur) = HHmm(g * Day + sheet[i])
                     /\ \A j \in DOMAIN sheet : sheet[j] > ServiceTime(cur) => sheet[i] <= sheet[j]
<1>. DEFINE t == ServiceTime(cur)
            later == Upcoming(sheet, t)
<1>1. /\ t \in Int /\ Day \in Int
      /\ \A j \in DOMAIN sheet : sheet[j] \in Int
  BY Constants, HourOfTime DEF ServiceTime
<1>2. \/ later = {} /\ NextTime(sheet, cur) = NoTime
      \/ \E i \in later :
             /\ \A j \in later : i <= j
             /\ NextTime(sheet, cur) = HHmm(IF t > Day THEN sheet[i] - Day ELSE sheet[i])
             /\ NextTime(sheet, cur) \in (0..23) \X (0..59)
  BY NextTimeIs
<1>3. \A j \in DOMAIN sheet : j \in later <=> sheet[j] > t
  BY DEF Upcoming
<1>4. later \in SUBSET DOMAIN sheet
  BY DEF Upcoming
<1>. HIDE DEF t, later
<1>5. CASE later = {} /\ NextTime(sheet, cur) = NoTime
  BY <1>1, <1>3, <1>5 DEF t
<1>6. CASE later # {} \/ NextTime(sheet, cur) # NoTime
  <2>1. PICK i \in later :
            /\ \A j \in later : i <= j
            /\ NextTime(sheet, cur) = HHmm(IF t > Day THEN sheet[i] - Day ELSE sheet[i])
            /\ NextTime(sheet, cur) \in (0..23) \X (0..59)
    BY <1>2, <1>6
  <2>2. i \in DOMAIN sheet /\ sheet[i] > t /\ sheet[i] \in Int /\ sheet[i] - Day \in Int
    BY <1>1, <1>3, <1>4, <2>1
  <2>3. NextTime(sheet, cur) # NoTime
    <3>1. NoTime \notin (0..23) \X (0..59)
      BY DEF NoTime
    <3>. QED
      BY <2>1, <3>1
  <2>4. NextTime(sheet, cur) = HHmm(g * Day + sheet[i])
    <3>1. HHmm(g * Day + sheet[i]) = HHmm(sheet[i])
      BY <2>2, HHmmOfDay
    <3>2. HHmm(sheet[i] - Day) = HHmm(sheet[i])
      <4>1. (-1) * Day + sheet[i] = sheet[i] - Day
        BY <1>1, <2>2
      <4>2. HHmm((-1) * Day + sheet[i]) = HHmm(sheet[i])
        BY <2>2, HHmmOfDay
      <4>. QED
        BY <4>1, <4>2
    <3>. QED
      BY <2>1, <3>1, <3>2
  <2>5. \A j \in DOMAIN sheet : sheet[j] > t => sheet[i] <= sheet[j]
    BY <1>3, <2>1, <2>2 DEF Ascending
  <2>. QED
    BY <2>2, <2>3, <2>4, <2>5 DEF t
<1>. QED
  BY <1>5, <1>6

\* The departures are those of the days' sheets, in the order of the days.
LEMMA DepartureIs ==
    ASSUME NEW t \in Departures
    PROVE  \E d \in ServiceDays : \E j \in DOMAIN RunsOn(d) : t = d * Day + RunsOn(d)[j]
  BY DEF Departures

LEMMA DepartureOf ==
    ASSUME NEW d \in ServiceDays, NEW j \in DOMAIN RunsOn(d)
    PROVE  d * Day + RunsOn(d)[j] \in Departures
  BY DEF Departures

\* What the conditions of the property say of the screen: the sheet viewDidLoad
\* found is the one of the GMT day g.
AnnouncedConditions ==
    /\ HasOpenedSheet
    /\ allData = opened.data
    /\ ServiceHours
    /\ GmtDayName(connectedAt) = GmtDayName(opened.at)
    /\ opened.at % Day \notin AfterMidnight..(TzOffset - 1)
    /\ NoTrainLeft

LEMMA SheetOfGmtDay ==
    ASSUME ScreenInv, AnnouncedConditions
    PROVE  OpenedSheet = RunsOn(GmtDay(opened.at))
<1>1. IsOpen
  BY DEF AnnouncedConditions, HasOpenedSheet
<1>2. running \/ trapped
  BY <1>1 DEF ScreenInv, Connected
<1>3. dayOfWeek = DayOfWeekKey(GmtDayName(opened.at))
  BY <1>2 DEF ScreenInv, Connected, AnnouncedConditions
<1>4. opened.at \in Int
  BY <1>1 DEF ScreenInv, OpenedBefore
<1>5. dayOfWeek = DayOfWeekKey(DayName(GmtDay(opened.at) * Day))
  BY <1>3, <1>4, NameOfGmtDay
<1>. QED
  BY <1>5, Zenon DEF OpenedSheet, TimeSheet, Sheet, RunsOn, Sheets, AnnouncedConditions

LEMMA AnnouncedIf ==
    ASSUME EastOfGmt, ScreenInv
    PROVE  AnnouncedTrainIsNext
<1>. SUFFICES ASSUME AnnouncedConditions
              PROVE  IF nextTimeValue = NoTime
                     THEN \A t \in Departures : t > opened.at =>
                              GmtDay(t) > GmtDay(opened.at)
                     ELSE \E next \in Departures :
                              /\ nextTimeValue = HHmm(next)
                              /\ next > now \/ (next = opened.at /\ opened.at % Day = 0)
                              /\ \A t \in Departures : t > now => next <= t
  BY Zenon DEF AnnouncedTrainIsNext, AnnouncesNext, AnnouncedConditions, GmtDay
<1>. DEFINE a == opened.at
            g == GmtDay(a)
            sheet == RunsOn(g)
<1>1. HasOpenedSheet /\ OpenedSheet = sheet
  BY SheetOfGmtDay DEF AnnouncedConditions
<1>2. /\ sheet \in Seq(Times) /\ Ascending(sheet)
      /\ now \in Nat /\ a \in Nat /\ a <= now
  BY <1>1, SheetOfScreen
<1>3. PICK cur \in CurrentTimeFromStartDay(a) : nextTimeValue = NextTime(sheet, cur)
  BY <1>1 DEF ScreenInv, Announced
<1>4. cur \in Int
  BY <1>2, ClockReading, Constants
<1>5. /\ g \in Int /\ g \in (a \div Day - 1)..(a \div Day)
      /\ g * Day \in Int /\ a >= g * Day + TzOffset
      /\ \/ ServiceTime(cur) = a - g * Day
         \/ ServiceTime(cur) = a - g * Day - 1 /\ a % Day = 0
  BY <1>2, <1>3, ServiceClock DEF AnnouncedConditions
<1>6. /\ Day \in Nat /\ AfterMidnight \in Nat /\ TzOffset \in Int
      /\ AfterMidnight <= TzOffset /\ TzOffset < Day
  BY Constants DEF EastOfGmt
<1>7. ServiceTime(cur) \in Int
  BY <1>4, <1>6 DEF ServiceTime
<1>. DEFINE k == ServiceTime(cur)
<1>8. g \in ServiceDays /\ ServiceDays \in SUBSET Int
  <2>1. /\ a \div Day <= now \div Day /\ a \div Day \in Int /\ now \div Day \in Int
    BY <1>2, DaysGrow
  <2>. QED
    BY <1>5, <2>1 DEF ServiceDays
<1>9. /\ \A i \in DOMAIN sheet : sheet[i] \in Int /\ sheet[i] <= Day + AfterMidnight
      /\ \A d \in ServiceDays : \A j \in DOMAIN RunsOn(d) :
             RunsOn(d)[j] \in TzOffset..(Day + AfterMidnight)
  <2>1. \A d \in ServiceDays : \A j \in DOMAIN RunsOn(d) :
             RunsOn(d)[j] \in TzOffset..(Day + AfterMidnight)
    <3>1. ServiceHours
      BY DEF AnnouncedConditions
    <3>. QED
      BY <3>1, Zenon DEF ServiceHours
  <2>2. \A i \in DOMAIN sheet : sheet[i] \in TzOffset..(Day + AfterMidnight)
    BY <1>8, <2>1, Zenon
  <2>. HIDE DEF sheet
  <2>3. \A i \in DOMAIN sheet : sheet[i] \in Int /\ sheet[i] <= Day + AfterMidnight
    BY <1>6, <2>2
  <2>. QED
    BY <2>1, <2>3, Zenon
<1>. HIDE DEF a, g, sheet, k
\* A departure after viewDidLoad is one of the sheet or of a later day.
<1>10. ASSUME NEW t \in Departures, t > a
       PROVE  /\ t \in Int
              /\ \/ \E j \in DOMAIN sheet : t = g * Day + sheet[j] /\ sheet[j] > k
                 \/ \E d \in Int : d > g /\ d * Day \in Int /\ t >= d * Day + TzOffset
  <2>1. PICK d \in ServiceDays : \E j \in DOMAIN RunsOn(d) : t = d * Day + RunsOn(d)[j]
    BY DepartureIs
  <2>2. PICK j \in DOMAIN RunsOn(d) : t = d * Day + RunsOn(d)[j]
    BY <2>1
  <2>3. /\ d \in Int /\ d * Day \in Int
        /\ RunsOn(d)[j] \in TzOffset..(Day + AfterMidnight)
    BY <1>8, <1>9, DaysApart
  <2>4. t \in Int
    BY <1>6, <2>2, <2>3
  <2>5. d >= g
    <3>. SUFFICES ASSUME d < g PROVE FALSE
      BY <1>5, <2>3
    <3>1. d * Day + Day <= g * Day
      BY <1>5, <2>3, DaysApart
    <3>. QED
      BY <1>2, <1>5, <1>6, <1>10, <2>2, <2>3, <3>1
  <2>6. CASE d = g
    <3>1. j \in DOMAIN sheet /\ t = g * Day + sheet[j]
      BY <2>2, <2>6 DEF sheet
    <3>2. sheet[j] > k
      BY <1>2, <1>5, <1>7, <1>9, <1>10, <2>4, <3>1 DEF k
    <3>. QED
      BY <2>4, <3>1, <3>2
  <2>7. CASE d > g
    BY <1>6, <2>2, <2>3, <2>4, <2>7
  <2>. QED
    BY <1>5, <2>3, <2>5, <2>6, <2>7
<1>11. \/ NextTime(sheet, cur) = NoTime /\ \A j \in DOMAIN sheet : sheet[j] <= k
       \/ /\ NextTime(sheet, cur) # NoTime
          /\ \E i \in DOMAIN sheet :
                 /\ sheet[i] > k
                 /\ NextTime(sheet, cur) = HHmm(g * Day + sheet[i])
                 /\ \A j \in DOMAIN sheet : sheet[j] > k => sheet[i] <= sheet[j]
  BY <1>2, <1>4, <1>5, AnnouncedTime, Zenon DEF k
<1>12. CASE nextTimeValue = NoTime
  <2>. SUFFICES ASSUME NEW t \in Departures, t > a PROVE GmtDay(t) > g
    BY <1>12 DEF a, g
  <2>1. \A j \in DOMAIN sheet : ~(sheet[j] > k)
    BY <1>3, <1>7, <1>9, <1>11, <1>12 DEF k
  <2>2. PICK d \in Int : t \in Int /\ d > g /\ d * Day \in Int /\ t >= d * Day + TzOffset
    BY <1>10, <2>1
  <2>3. d * Day <= t - TzOffset /\ t - TzOffset \in Int
    BY <1>6, <2>2
  <2>4. d <= GmtDay(t) /\ GmtDay(t) \in Int
    BY <2>3, DayCompare, DayOfTime DEF GmtDay
  <2>. QED
    BY <1>5, <2>2, <2>4
<1>13. CASE nextTimeValue # NoTime
  <2>1. PICK i \in DOMAIN sheet :
            /\ sheet[i] > k
            /\ nextTimeValue = HHmm(g * Day + sheet[i])
            /\ \A j \in DOMAIN sheet : sheet[j] > k => sheet[i] <= sheet[j]
    BY <1>3, <1>11, <1>13
  <2>. DEFINE next == g * Day + sheet[i]
  <2>2. next \in Departures
    BY <1>8, DepartureOf DEF sheet
  <2>3. next \in Int /\ sheet[i] \in Int /\ sheet[i] <= Day + AfterMidnight
    BY <1>5, <1>9
  <2>4. next > a \/ (next = a /\ a % Day = 0)
    BY <1>2, <1>5, <1>7, <2>1, <2>3 DEF k
  <2>5. next > now \/ (next = a /\ a % Day = 0)
    BY <2>2, <2>4 DEF AnnouncedConditions, NoTrainLeft, a
  <2>6. ASSUME NEW t \in Departures, t > now PROVE next <= t
    <3>1. t > a /\ t \in Int
      <4>1. t \in Int
        BY <1>6, <1>8, <1>9, DepartureIs, DaysApart
      <4>. QED
        BY <1>2, <2>6, <4>1
    <3>2. CASE \E j \in DOMAIN sheet : t = g * Day + sheet[j] /\ sheet[j] > k
      <4>1. PICK j \in DOMAIN sheet : t = g * Day + sheet[j] /\ sheet[j] > k
        BY <3>2
      <4>2. sheet[i] <= sheet[j] /\ sheet[j] \in Int
        BY <1>9, <2>1, <4>1
      <4>. QED
        BY <1>5, <2>3, <4>1, <4>2
    <3>3. CASE \E d \in Int : d > g /\ d * Day \in Int /\ t >= d * Day + TzOffset
      <4>1. PICK d \in Int : d > g /\ d * Day \in Int /\ t >= d * Day + TzOffset
        BY <3>3
      <4>2. g * Day + Day <= d * Day
        BY <1>5, <4>1, DaysApart
      <4>. QED
        BY <1>5, <1>6, <2>3, <3>1, <4>1, <4>2
    <3>. QED
      BY <1>10, <3>1, <3>2, <3>3
  <2>. QED
    BY <1>13, <2>1, <2>2, <2>5, <2>6 DEF a
<1>. QED
  BY <1>12, <1>13

\* The label is computed once, with the day of the GMT calendar and the time of
\* the local one, from two readings of the clock; nobody refreshes it.  It is the
\* first train of all days' schedules until that train leaves, for every zone east
\* of GMT by 25 minutes or more, as the zone of Minsk is.
THEOREM AnnouncedIsNext == EastOfGmt => (Spec => []AnnouncedTrainIsNext)
<1>. SUFFICES ASSUME EastOfGmt PROVE Spec => []AnnouncedTrainIsNext
  OBVIOUS
<1>1. ScreenInv => AnnouncedTrainIsNext
  BY AnnouncedIf
<1>. QED
  BY <1>1, ScreenInvariance, PTL

=============================================================================
