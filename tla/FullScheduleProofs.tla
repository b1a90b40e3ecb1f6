------------------------- MODULE FullScheduleProofs --------------------------
(***************************************************************************)
(* Proofs about the sheet with the full schedule, for every dictionary.    *)
(* The inductive invariant says which schedule the rows were counted from, *)
(* that a cell drawn while that schedule is stored shows its row of the    *)
(* sheet on the label, and what a trap has found.                          *)
(***************************************************************************)
EXTENDS FullSchedule, MetroDataProofs

-----------------------------------------------------------------------------
(* Invariants.                                                             *)

\* A sheet exists only in a process; a trapped one has stopped.
Living ==
    /\ ~running /\ ~trapped => ~IsOpen
    /\ trapped => ~running

\* The rows of the sheet were counted from a schedule that is not newer than the
\* stored one, on the weekday.
Counted ==
    IsOpen =>
        /\ counted \in 1..allData
        /\ dayType \in {DayTypeText["weekday"], DayTypeText["weekend"]}
        /\ numberOfRow = IF SheetFound(counted, "weekday", stationName, toStationName)
                         THEN RowsOf(counted, "weekday", stationName, toStationName)
                         ELSE 0

\* A cell shows its row of the sheet of the label.
CellsShowRows ==
    IsOpen /\ CellFound /\ counted = allData =>
        \A row \in DOMAIN cells : cells[row] = RowCell(ShownSheet, DOMAIN ShownSheet, row)

\* A trap found a row beyond the sheet.
RowBeyondSheet ==
    trapped => /\ IsOpen /\ CellFound
               /\ RowsOf(allData, ShownDay, stationName, toStationName) < numberOfRow

SheetInv == TypeOK /\ Living /\ Counted /\ CellsShowRows /\ RowBeyondSheet

-----------------------------------------------------------------------------
(* Types.                                                                  *)

LabelTypes ==
    /\ allData \in 0..MaxVersion
    /\ running \in BOOLEAN /\ trapped \in BOOLEAN
    /\ stationName \in {""} \cup Texts
    /\ toStationName \in {""} \cup {DirectionText[d] : d \in Directions}
    /\ dayType \in {"", DayTypeText["weekday"], DayTypeText["weekend"]}
    /\ counted \in 0..MaxVersion

CellTypes(rows, table) ==
    /\ rows \in Nat
    /\ DOMAIN table \in SUBSET (0..(rows - 1))
    /\ \A row \in DOMAIN table : CellType(table[row])

LEMMA TypeParts == TypeOK <=> LabelTypes /\ CellTypes(numberOfRow, cells)
<1>1. DOMAIN cells \subseteq 0..(numberOfRow - 1) <=> DOMAIN cells \in SUBSET (0..(numberOfRow - 1))
  BY Zenon
<1>. QED
  BY <1>1, Zenon DEF TypeOK, LabelTypes, CellTypes, CellType

LEMMA TypePartsNext == LabelTypes' /\ CellTypes(numberOfRow', cells') => TypeOK'
<1>1. DOMAIN cells' \subseteq 0..(numberOfRow' - 1)
        <=> DOMAIN cells' \in SUBSET (0..(numberOfRow' - 1))
  BY Zenon
<1>. QED
  BY <1>1, Zenon DEF TypeOK, LabelTypes, CellTypes, CellType

LEMMA NoCells == ASSUME NEW rows \in Nat PROVE CellTypes(rows, <<>>)
<1>1. DOMAIN <<>> = {}
  OBVIOUS
<1>. QED
  BY <1>1 DEF CellTypes

LEMMA RowsOfType ==
    ASSUME NEW v \in 0..MaxVersion, NEW day, NEW text, NEW to, SheetFound(v, day, text, to)
    PROVE  RowsOf(v, day, text, to) \in Nat
<1>. DEFINE sheet == TimeSheet(v, day, text, to)
<1>1. sheet \in Seq(Times)
  BY FoundSheet
<1>. HIDE DEF sheet
<1>2. IsFiniteSet(HourSet(sheet, DOMAIN sheet))
  BY <1>1, HoursOfSheet
<1>3. Cardinality(HourSet(sheet, DOMAIN sheet)) \in Nat
  BY <1>2, FS_CardinalityType
<1>. QED
  BY <1>3 DEF RowsOf, RowCount, sheet

LEMMA NoVersion == NoData \in 0..MaxVersion
  BY MaxVersionAssumption DEF NoData

LEMMA TypeClosed ==
    ASSUME Closed, allData' \in 0..MaxVersion, running' \in BOOLEAN, trapped' \in BOOLEAN
    PROVE  TypeOK'
<1>1. LabelTypes'
  BY NoVersion, Zenon DEF Closed, LabelTypes
<1>2. CellTypes(numberOfRow', cells')
  <2>1. numberOfRow' = 0 /\ cells' = <<>>
    BY DEF Closed
  <2>. QED
    BY <2>1, NoCells
<1>. QED
  BY <1>1, <1>2, TypePartsNext

LEMMA TypeStep == TypeOK /\ [Next]_vars => TypeOK'
<1>. SUFFICES ASSUME TypeOK, [Next]_vars PROVE TypeOK'
  OBVIOUS
<1>0. LabelTypes /\ CellTypes(numberOfRow, cells)
  BY TypeParts
<1>0a. allData \in 0..MaxVersion
  BY <1>0, Zenon DEF LabelTypes
<1>1. CASE StoreSchedule
  <2>1. UNCHANGED <<running, stationName, toStationName, dayType, numberOfRow, cells, counted,
                    trapped>>
    BY <1>1 DEF StoreSchedule, sheetVars
  <2>2. allData' \in 0..MaxVersion
    BY <1>1, MaxVersionAssumption DEF StoreSchedule, Versions
  <2>3. LabelTypes'
    BY <1>0, <2>1, <2>2, Zenon DEF LabelTypes
  <2>. QED
    BY <1>0, <2>1, <2>3, TypePartsNext
<1>2. CASE ConnectScene
  BY <1>0, <1>2, TypeClosed DEF ConnectScene, LabelTypes
<1>3. CASE Kill
  <2>1. allData' \in 0..MaxVersion
    BY <1>0a, <1>3, MaxVersionAssumption DEF Kill
  <2>. QED
    BY <1>3, <2>1, TypeClosed DEF Kill
<1>4. ASSUME NEW text \in Texts, NEW d \in Directions, NEW day \in {"weekday", "weekend"},
             OpenWeekdayVC(text, DirectionText[d], day)
      PROVE  TypeOK'
  <2>1. LabelTypes'
    BY <1>0, <1>4 DEF OpenWeekdayVC, SetItems, LabelTypes
  <2>2. numberOfRow' \in Nat
    BY <1>0, <1>4, RowsOfType DEF OpenWeekdayVC, SetNumberOfRow, LabelTypes
  <2>3. cells' = <<>>
    BY <1>4 DEF OpenWeekdayVC, SetItems
  <2>. QED
    BY <2>1, <2>2, <2>3, NoCells, TypePartsNext
<1>5. ASSUME NEW row \in 0..(numberOfRow - 1), NEW cell, CellType(cell),
             cells' = Drawn(cells, row, cell),
             UNCHANGED <<allData, running, stationName, toStationName, dayType, numberOfRow,
                         counted, trapped>>
      PROVE  TypeOK'
  <2>1. LabelTypes'
    BY <1>0, <1>5, Zenon DEF LabelTypes
  <2>2. CellTypes(numberOfRow', cells')
    BY <1>0, <1>5, DrawnCells DEF CellTypes
  <2>. QED
    BY <2>1, <2>2, TypePartsNext
<1>6. ASSUME NEW row \in 0..(numberOfRow - 1), ConfigureCell(row) PROVE TypeOK'
  <2>0. CellFound
    BY <1>6 DEF ConfigureCell
  <2>1a. ShownSheet \in Seq(Times)
    BY <1>0a, <2>0, FoundSheet DEF CellFound, ShownSheet
  <2>1b. row \in Nat
    OBVIOUS
  <2>1. ShownSheet \in Seq(Times) /\ row \in Nat
    BY <2>1a, <2>1b
  <2>2. CellType(RowCell(ShownSheet, DOMAIN ShownSheet, row))
    <3>. DEFINE sheet == ShownSheet
                cell == RowCell(sheet, DOMAIN sheet, row)
    <3>1. RowInRange(sheet, DOMAIN sheet, row) /\ DOMAIN sheet \in SUBSET DOMAIN sheet
      BY <1>6 DEF ConfigureCell
    <3>. HIDE DEF sheet
    <3>2. cell.hour \in 0..23 /\ cell.minutes \in Seq(0..59)
      BY <2>1, <3>1, RowCellShows DEF sheet
    <3>. HIDE DEF cell
    <3>3. CellType(cell)
      BY <3>2 DEF CellType
    <3>. QED
      BY <3>3 DEF cell, sheet
  <2>. QED
    BY <1>5, <1>6, <2>2 DEF ConfigureCell
<1>7. ASSUME NEW row \in 0..(numberOfRow - 1), TrapInCell(row) PROVE TypeOK'
  BY <1>0, <1>7, TypePartsNext DEF TrapInCell, sheetVars, LabelTypes
<1>8. ASSUME NEW row \in 0..(numberOfRow - 1), ReuseCell(row) PROVE TypeOK'
  <2>1. PICK content \in Reusable(cells) : cells' = Drawn(cells, row, content)
    BY <1>8 DEF ReuseCell
  <2>2. CellType(content)
    BY <1>0, ReusableCells DEF CellTypes
  <2>. QED
    BY <1>5, <1>8, <2>1, <2>2 DEF ReuseCell
<1>9. CASE Dismiss
  BY <1>0, <1>9, TypeClosed DEF Dismiss, LabelTypes
<1>10. CASE UNCHANGED vars
  BY <1>0, <1>10, TypePartsNext DEF vars, sheetVars, LabelTypes
<1>. QED
  BY <1>1, <1>2, <1>3, <1>4, <1>6, <1>7, <1>8, <1>9, <1>10 DEF Next

-----------------------------------------------------------------------------
(* The invariant.                                                          *)

LEMMA SheetInit == Init => SheetInv
<1>. SUFFICES ASSUME Init PROVE SheetInv
  OBVIOUS
<1>0. NoData \in 0..MaxVersion /\ 1 \in 0..MaxVersion
  BY MaxVersionAssumption DEF NoData
<1>1. LabelTypes
  BY <1>0, Zenon DEF Init, LabelTypes
<1>1a. numberOfRow \in Nat /\ cells = <<>>
  BY DEF Init
<1>2. TypeOK
  BY <1>1, <1>1a, NoCells, TypeParts
<1>. QED
  BY <1>2 DEF Init, SheetInv, Living, Counted, CellsShowRows, RowBeyondSheet, IsOpen

\* Whatever closes the sheet leaves nothing to say.
LEMMA ClosedSheet ==
    ASSUME Closed, ~trapped'
    PROVE  Living' /\ Counted' /\ CellsShowRows' /\ RowBeyondSheet'
  BY DEF Closed, Living, Counted, CellsShowRows, RowBeyondSheet, IsOpen

LEMMA SheetStep == SheetInv /\ [Next]_vars => SheetInv'
<1>. SUFFICES ASSUME SheetInv, [Next]_vars PROVE Living' /\ Counted' /\ CellsShowRows' /\ RowBeyondSheet'
  BY TypeStep DEF SheetInv
<1>0. /\ TypeOK /\ Living /\ Counted /\ CellsShowRows /\ RowBeyondSheet
      /\ LabelTypes /\ CellTypes(numberOfRow, cells) /\ allData \in Nat /\ counted \in Nat
  <2>1. LabelTypes /\ CellTypes(numberOfRow, cells)
    BY TypeParts DEF SheetInv
  <2>2. allData \in 0..MaxVersion /\ counted \in 0..MaxVersion
    BY <2>1, Zenon DEF LabelTypes
  <2>3. allData \in Nat /\ counted \in Nat
    BY <2>2, MaxVersionAssumption
  <2>. QED
    BY <2>1, <2>3 DEF SheetInv
<1>1. CASE StoreSchedule
  <2>1. /\ running /\ allData' > allData /\ allData' \in Nat
        /\ UNCHANGED <<running, stationName, toStationName, dayType, numberOfRow, cells, counted,
                       trapped>>
    BY <1>1, MaxVersionAssumption DEF StoreSchedule, sheetVars, Versions
  <2>2. ~trapped
    BY <1>0, <2>1 DEF Living
  <2>3. Living' /\ RowBeyondSheet'
    BY <1>0, <2>1, <2>2 DEF Living, RowBeyondSheet
  <2>4. IsOpen' => IsOpen /\ counted \in 1..allData
    BY <1>0, <2>1 DEF IsOpen, Counted
  <2>5. Counted'
    <3>1. IsOpen' => counted' \in 1..allData'
      BY <1>0, <2>1, <2>4
    <3>. QED
      BY <1>0, <2>1, <2>4, <3>1 DEF Counted
  <2>6. CellsShowRows'
    <3>1. IsOpen' => counted' # allData'
      BY <1>0, <2>1, <2>4
    <3>. QED
      BY <3>1 DEF CellsShowRows
  <2>. QED
    BY <2>3, <2>5, <2>6
<1>2. CASE ConnectScene \/ Kill
  BY <1>2, ClosedSheet DEF ConnectScene, Kill
<1>3. CASE Dismiss
  <2>1. ~trapped'
    BY <1>0, <1>3 DEF Dismiss, Living
  <2>. QED
    BY <1>3, <2>1, ClosedSheet DEF Dismiss
<1>4. ASSUME NEW text \in Texts, NEW d \in Directions, NEW day \in {"weekday", "weekend"},
             OpenWeekdayVC(text, DirectionText[d], day)
      PROVE  Living' /\ Counted' /\ CellsShowRows' /\ RowBeyondSheet'
  <2>1. /\ running' /\ ~trapped' /\ allData' = allData /\ counted' = allData /\ allData # NoData
        /\ dayType' \in {DayTypeText["weekday"], DayTypeText["weekend"]} /\ cells' = <<>>
    BY <1>0, <1>4 DEF OpenWeekdayVC, SetItems, Living
  <2>2. numberOfRow' = IF SheetFound(counted', "weekday", stationName', toStationName')
                       THEN RowsOf(counted', "weekday", stationName', toStationName')
                       ELSE 0
    BY <1>4 DEF OpenWeekdayVC, SetItems, SetNumberOfRow
  <2>3. counted' \in 1..allData'
    BY <1>0, <2>1 DEF NoData
  <2>4. DOMAIN cells' = {}
    BY <2>1
  <2>. QED
    BY <2>1, <2>2, <2>3, <2>4 DEF Living, Counted, CellsShowRows, RowBeyondSheet
<1>5. ASSUME NEW row \in 0..(numberOfRow - 1), ConfigureCell(row) \/ ReuseCell(row)
      PROVE  Living' /\ Counted' /\ CellsShowRows' /\ RowBeyondSheet'
  <2>1. /\ UNCHANGED <<allData, running, stationName, toStationName, dayType, numberOfRow,
                       counted, trapped>>
        /\ running
    BY <1>5 DEF ConfigureCell, ReuseCell, Drawing
  <2>2. /\ (IsOpen' <=> IsOpen) /\ (CellFound' <=> CellFound) /\ ShownSheet' = ShownSheet
    BY <2>1 DEF IsOpen, CellFound, ShownSheet, ShownDay
  <2>3. ~trapped
    BY <1>0, <2>1 DEF Living
  <2>4. Living' /\ RowBeyondSheet' /\ Counted'
    BY <1>0, <2>1, <2>2, <2>3 DEF Living, RowBeyondSheet, Counted
  <2>5. ASSUME IsOpen', CellFound', counted' = allData', NEW r \in DOMAIN cells'
        PROVE  cells'[r] = RowCell(ShownSheet', DOMAIN ShownSheet', r)
    <3>1. IsOpen /\ CellFound /\ counted = allData
      BY <2>1, <2>2, <2>5
    <3>2. cells' = Drawn(cells, row, RowCell(ShownSheet, DOMAIN ShownSheet, row))
      BY <1>5, <3>1 DEF ConfigureCell, ReuseCell
    <3>3. \A s \in DOMAIN cells : cells[s] = RowCell(ShownSheet, DOMAIN ShownSheet, s)
      BY <1>0, <3>1 DEF CellsShowRows
    <3>4. cells'[r] = RowCell(ShownSheet, DOMAIN ShownSheet, r)
      BY <2>5, <3>2, <3>3 DEF Drawn
    <3>. QED
      BY <2>2, <3>4
  <2>6. CellsShowRows'
    BY <2>5 DEF CellsShowRows
  <2>. QED
    BY <2>4, <2>6
<1>6. ASSUME NEW row \in 0..(numberOfRow - 1), TrapInCell(row)
      PROVE  Living' /\ Counted' /\ CellsShowRows' /\ RowBeyondSheet'
  <2>1. /\ UNCHANGED <<allData, stationName, toStationName, dayType, numberOfRow, cells, counted>>
        /\ ~running' /\ trapped' /\ IsOpen /\ CellFound
    BY <1>6 DEF TrapInCell, Drawing, sheetVars
  <2>2. /\ IsOpen' /\ CellFound' /\ ShownSheet' = ShownSheet /\ ShownDay' = ShownDay
    BY <2>1 DEF IsOpen, CellFound, ShownSheet, ShownDay
  <2>3. RowsOf(allData, ShownDay, stationName, toStationName) < numberOfRow
    <3>1. RowsOf(allData, ShownDay, stationName, toStationName) \in Nat
      BY <1>0, <2>1, RowsOfType DEF CellFound, LabelTypes
    <3>2. ~(row < RowsOf(allData, ShownDay, stationName, toStationName))
      BY <1>6 DEF TrapInCell, RowInRange, RowsOf, RowCount, ShownSheet
    <3>3. row \in Int /\ row < numberOfRow /\ numberOfRow \in Nat
      BY <1>0 DEF CellTypes
    <3>. QED
      BY <3>1, <3>2, <3>3
  <2>4. Living' /\ RowBeyondSheet'
    BY <2>1, <2>2, <2>3 DEF Living, RowBeyondSheet
  <2>5. Counted'
    BY <1>0, <2>1 DEF Counted
  <2>6. CellsShowRows'
    BY <1>0, <2>1, <2>2 DEF CellsShowRows
  <2>. QED
    BY <2>4, <2>5, <2>6
<1>7. CASE UNCHANGED vars
  BY <1>0, <1>7 DEF vars, sheetVars, Living, Counted, CellsShowRows, RowBeyondSheet, IsOpen,
     CellFound, ShownSheet, ShownDay
<1>. QED
  BY <1>1, <1>2, <1>3, <1>4, <1>5, <1>6, <1>7 DEF Next

LEMMA SheetInvariance == Spec => []SheetInv
  BY SheetInit, SheetStep, PTL DEF Spec

-----------------------------------------------------------------------------
(* Theorems.                                                               *)

\* The texts of the labels are the ones DayTypeEnum finds again.
LEMMA DayOfText ==
    /\ DayOfTypeText(DayTypeText["weekday"]) = "weekday"
    /\ DayOfTypeText(DayTypeText["weekend"]) = "weekend"
<1>1. \A day, other \in Days : DayTypeText[day] = DayTypeText[other] => day = other
  <2>1. /\ DayTypeText["weekday"] = "Budnie dni" /\ DayTypeText["weekend"] = "Vykhodnye dni"
        /\ DayTypeText["friday"] = "Pyatnitsa"
    BY DEF DayTypeText
  <2>. QED
    BY <2>1 DEF Days
<1>2. "weekday" \in Days /\ "weekend" \in Days
  BY DEF Days
<1>3. \A day \in Days : DayOfTypeText(DayTypeText[day]) = day
  BY <1>1, Zenon DEF DayOfTypeText
<1>. QED
  BY <1>2, <1>3

\* The labels, the row count and every cell of the sheet are what viewDidLoad and
\* cellForRowAt can put there, whatever the dictionary lacks.
THEOREM TypeCorrect == Spec => []TypeOK
<1>1. SheetInv => TypeOK
  BY DEF SheetInv
<1>. QED
  BY <1>1, SheetInvariance, PTL

\* A subscript of configureTimeSheetTableViewCell is out of range only in a weekend
\* table with fewer hours than the weekday one, which numbered its rows, or after a
\* download replaced the schedule by one with fewer hours.
THEOREM TrapNeedsFewer == Spec => []TrapNeedsFewerHours
<1>1. SheetInv => TrapNeedsFewerHours
  <2>. SUFFICES ASSUME SheetInv, trapped PROVE TrapNeedsFewerHours
    BY DEF TrapNeedsFewerHours
  <2>. DEFINE shown == RowsOf(allData, ShownDay, stationName, toStationName)
              sized == RowsOf(counted, "weekday", stationName, toStationName)
  <2>1. IsOpen /\ CellFound /\ shown < numberOfRow
    BY DEF SheetInv, RowBeyondSheet
  <2>2. shown \in Nat
    BY <2>1, RowsOfType, TypeParts DEF SheetInv, CellFound, LabelTypes
  <2>3. /\ numberOfRow = IF SheetFound(counted, "weekday", stationName, toStationName)
                         THEN sized ELSE 0
        /\ dayType \in {DayTypeText["weekday"], DayTypeText["weekend"]}
    BY <2>1 DEF SheetInv, Counted
  <2>4. shown < sized
    <3>. HIDE DEF shown, sized
    <3>. QED
      BY <2>1, <2>2, <2>3
  <2>5. ASSUME counted = allData
        PROVE  dayType = DayTypeText["weekend"] /\ ShownDay = "weekend"
    <3>1. ASSUME dayType = DayTypeText["weekday"] PROVE FALSE
      <4>1. shown = sized
        BY <2>5, <3>1, DayOfText DEF ShownDay
      <4>. HIDE DEF shown, sized
      <4>. QED
        BY <2>2, <2>4, <4>1
    <3>. QED
      BY <2>3, <3>1, DayOfText DEF ShownDay
  <2>. QED
    BY <2>4, <2>5 DEF TrapNeedsFewerHours
<1>. QED
  BY <1>1, SheetInvariance, PTL

\* On weekdays the process survives the table, and drawn from top to bottom in any
\* order it shows every departure once, while the schedule its rows were counted
\* from is stored.
THEOREM WeekdayFull == Spec => []WeekdayIsFull
<1>1. SheetInv => WeekdayIsFull
  <2>. SUFFICES ASSUME SheetInv, dayType = DayTypeText["weekday"], IsOpen, CellFound,
                       counted = allData
                PROVE  ~trapped /\ (AllDrawn => ShowsWholeSheet)
    BY DEF WeekdayIsFull, FullScheduleIsFull
  <2>1. ShownDay = "weekday" /\ LabelTypes
    BY DayOfText, TypeParts DEF ShownDay, SheetInv
  <2>. DEFINE sheet == ShownSheet
  <2>2. sheet \in Seq(Times) /\ ServiceDay(sheet)
    BY <2>1, FoundSheet, FoundServiceDay DEF CellFound, ShownSheet, LabelTypes
  <2>3. numberOfRow = RowCount(sheet, DOMAIN sheet)
    BY <2>1 DEF SheetInv, Counted, CellFound, RowsOf, ShownSheet
  <2>4. ~trapped
    <3>1. RowsOf(allData, ShownDay, stationName, toStationName) = numberOfRow
      BY <2>3 DEF RowsOf, ShownSheet
    <3>2. numberOfRow \in Nat
      BY TypeParts DEF SheetInv, CellTypes
    <3>. QED
      BY <3>1, <3>2 DEF SheetInv, RowBeyondSheet
  <2>5. ASSUME AllDrawn PROVE ShowsWholeSheet
    <3>1. DOMAIN cells = 0..(RowCount(sheet, DOMAIN sheet) - 1)
      BY <2>3, <2>5 DEF AllDrawn
    <3>2. \A row \in DOMAIN cells : cells[row] = RowCell(sheet, DOMAIN sheet, row)
      BY DEF SheetInv, CellsShowRows
    <3>. HIDE DEF sheet
    <3>3. /\ \A i \in DOMAIN sheet :
                \E row \in DOMAIN cells : \E k \in DOMAIN cells[row].minutes :
                    HHmm(sheet[i]) = <<cells[row].hour, cells[row].minutes[k]>>
          /\ \A r, s \in DOMAIN cells : cells[r].hour = cells[s].hour => r = s
      BY <2>2, <3>1, <3>2, WholeSheet
    <3>. QED
      BY <3>3, Zenon DEF ShowsWholeSheet, sheet
  <2>. QED
    BY <2>4, <2>5
<1>. QED
  BY <1>1, SheetInvariance, PTL

=============================================================================
