--------------------------- MODULE MetroAppProofs ----------------------------
(***************************************************************************)
(* Proofs about the app as a whole.  Every step of the app is a step of    *)
(* each screen or leaves it alone, so what was proved of a screen in its   *)
(* own surroundings holds in the app; what depends on several screens at   *)
(* once (the cell a time screen was opened from, the download below it)    *)
(* has an invariant of its own.                                            *)
(***************************************************************************)
EXTENDS MetroApp, ThirdLineProofs, MetroDataProofs

TimeP == INSTANCE TimeScreenProofs WITH
    running     <- screen # 0 /\ trap # "time",
    trapped     <- trap = "time",
    numberOfRow <- timeRows,
    cells       <- timeCells

FullP == INSTANCE FullScheduleProofs WITH
    running     <- screen # 0 /\ trap # "full",
    trapped     <- trap = "full",
    numberOfRow <- fullRows,
    cells       <- fullCells

-----------------------------------------------------------------------------
(* Invariants.                                                             *)

\* The labels of a pushed screen are the texts of a cell; without one they are empty.
Pushed ==
    /\ timePushed => fromStation \in Texts /\ toStation \in {DirectionText[d] : d \in Directions}
    /\ fromStation # "" => timePushed

\* The sheet is presented by the time screen.
Presenting ==
    /\ stationName # "" => presented = "full"
    /\ presented = "full" => timePushed

\* A cell drawn in a process that lives on the cached schedule leads to a time sheet.
CellsLead ==
    NamesMatch /\ savedBy = 0 =>
        \A row \in Rows : \A direction \in cells[row].dirs :
            SheetFound(allData, dayOfWeek, cells[row].name, DirectionText[direction])

\* Below a time screen that was opened without a pending download nothing is
\* downloaded, so the schedule stays.
Quiet ==
    timePushed /\ ~pendingAtOpen =>
        /\ ~Pending
        /\ presented \in {"none", "full"}
        /\ opened.data = allData
        /\ stationName # "" => counted = allData

AppInv == Pushed /\ Presenting /\ CellsLead /\ Quiet /\ CachedCellsLead

-----------------------------------------------------------------------------
(* The start screen in the app.                                            *)

\* Only a delivered schedule changes what the other screens read.
LEMMA StartFrame ==
    ASSUME StartScreen
    PROVE  /\ Alive
           /\ UNCHANGED <<dayOfWeek, screen, timePushed, clockVars, timeVars, fullVars, trap>>
           /\ UNCHANGED <<allData, savedBy>> \/ DeliverData
  BY DEF StartScreen, Flush, LoseAnswer, Answer, DeliverFailure, DeliverMalformed, DeliverData,
     TapRetry, TapOk, CellForRowAt, serverVars, storeVars, viewVars

LEMMA StartInit == AppInit => Init
  BY DEF AppInit

LEMMA StartStep == [AppNext]_appVars => [Next]_vars
<1>. SUFFICES ASSUME [AppNext]_appVars PROVE [Next]_vars
  OBVIOUS
<1>1. CASE Tick
  <2>1. now' \in Int
    BY <1>1, AppInstantsAssumption DEF Tick, Time!Tick
  <2>2. today' \in Days
    BY <1>1, <2>1, DayTypes DEF Tick
  <2>3. DayPasses
    BY <1>1, <2>2 DEF Tick, DayPasses
  <2>. QED
    BY <2>3 DEF Next
<1>2. CASE StartScreen
  BY <1>2 DEF StartScreen, Next
<1>3. CASE ServerPublishes \/ Connect \/ ProcessEnds \/ PopTimeScreen \/ DismissSheet
  BY <1>3 DEF ServerPublishes, Connect, ProcessEnds, PopTimeScreen, DismissSheet, Next
<1>4. ASSUME NEW row \in Rows, NEW direction \in Directions, PushTimeScreen(row, direction)
      PROVE  [Next]_vars
  BY <1>4 DEF PushTimeScreen, Next
<1>5. ASSUME NEW day, PresentFullSchedule(day) PROVE [Next]_vars
  BY <1>5 DEF PresentFullSchedule, Next
<1>6. ASSUME NEW row, DrawTimeCell(row) \/ TrapInTimeCell(row) \/ DrawFullCell(row)
                        \/ TrapInFullCell(row)
      PROVE  UNCHANGED vars
  BY <1>6 DEF DrawTimeCell, TrapInTimeCell, DrawFullCell, TrapInFullCell
<1>7. CASE UNCHANGED appVars
  BY <1>7 DEF appVars
<1>. QED
  BY <1>1, <1>2, <1>3, <1>4, <1>5, <1>6, <1>7 DEF AppNext

\* The start screen of the app is the one of ThirdLine: whatever the user does above
\* it is a step that module allows.
THEOREM StartImplemented == AppSpec => Spec
  BY StartInit, StartStep, PTL DEF AppSpec, Spec

LEMMA StartInvariance == AppSpec => [](DownloadInv /\ OrderInv)
  BY StartImplemented, DownloadInvariance, OrderInvariance, PTL

LEMMA DeliveredSchedule ==
    ASSUME OrderInv, DeliverData, screen # 0
    PROVE  /\ allData' \in Versions /\ allData' >= allData /\ allData \in Nat
           /\ savedBy' \in Screens /\ savedBy' # 0
<1>1. TypeOK /\ mainQueue # <<>> /\ Head(mainQueue).result \in Versions
  BY DEF OrderInv, DeliverData
<1>2. 1 \in DOMAIN mainQueue /\ Head(mainQueue) = mainQueue[1] /\ mainQueue[1] \in Completions
  BY <1>1 DEF TypeOK
<1>3. allData <= mainQueue[1].result
  BY <1>1, <1>2 DEF OrderInv, Ordered
<1>4. allData \in Nat
  BY <1>1, MaxVersionAssumption DEF TypeOK
<1>5. savedBy' \in Screens
  BY <1>2 DEF DeliverData, Completions
<1>6. savedBy' # 0
  BY <1>5, MaxScreensAssumption DEF Screens
<1>. QED
  BY <1>1, <1>2, <1>3, <1>4, <1>5, <1>6 DEF DeliverData, Versions

\* A pressed button has the texts of a configured cell.
LEMMA ButtonTexts ==
    ASSUME TypeOK, NEW row \in Rows, NEW direction \in Directions, ButtonPressed(row, direction)
    PROVE  cells[row].name \in Texts
<1>1. cells[row] \in CellContents /\ direction \in cells[row].dirs
  BY DEF TypeOK, ButtonPressed
<1>2. cells[row] # BlankCell
  BY <1>1 DEF BlankCell
<1>. QED
  BY <1>1, <1>2 DEF CellContents

-----------------------------------------------------------------------------
(* The time screen in the app.                                             *)

LEMMA SameTexts == Time!Texts = Texts /\ Full!Texts = Texts
  BY DEF Time!Texts, Full!Texts, Texts, Time!Versions, Full!Versions, Versions

LEMMA SameDirections ==
    /\ Time!Directions = Directions /\ Full!Directions = Directions
    /\ Time!DirectionText = DirectionText /\ Full!DirectionText = DirectionText
  BY DEF Time!Directions, Full!Directions, Directions, Time!DirectionText, Full!DirectionText,
     DirectionText

LEMMA TimeInit == AppInit => Time!Init
  BY DEF AppInit, Init, Time!Init, Time!Days, Days, Time!NoData, NoData, Time!NoTime, NoTime

LEMMA TimeStep == OrderInv /\ [AppNext]_appVars => [Time!Next]_Time!vars
<1>. SUFFICES ASSUME OrderInv, [AppNext]_appVars PROVE [Time!Next]_Time!vars
  OBVIOUS
<1>1. CASE Tick
  BY <1>1 DEF Tick, Time!Next
<1>2. CASE Connect \/ ProcessEnds \/ PopTimeScreen
  BY <1>2 DEF Connect, ProcessEnds, PopTimeScreen, Time!Next
<1>3. ASSUME UNCHANGED <<allData, dayOfWeek, screen, clockVars, timeVars>>,
             UNCHANGED trap \/ (Alive /\ trap' = "full")
      PROVE  [Time!Next]_Time!vars
  BY <1>3 DEF Alive, clockVars, timeVars, Time!vars, Time!sharedVars, Time!screenVars
<1>4. CASE StartScreen
  <2>1. /\ Alive
        /\ UNCHANGED <<dayOfWeek, screen, timePushed, clockVars, timeVars, fullVars, trap>>
        /\ UNCHANGED <<allData, savedBy>> \/ DeliverData
    BY <1>4, StartFrame
  <2>2. CASE UNCHANGED allData
    BY <1>3, <2>1, <2>2
  <2>3. CASE allData' # allData
    <3>1. allData' \in Versions /\ allData' > allData
      BY <2>1, <2>3, DeliveredSchedule DEF Alive, Versions
    <3>2. Time!StoreSchedule
      BY <2>1, <3>1 DEF Alive, clockVars, timeVars, Time!StoreSchedule, Time!screenVars,
         Time!Versions, Versions
    <3>. QED
      BY <3>2 DEF Time!Next
  <2>. QED
    BY <2>2, <2>3
<1>5. ASSUME NEW row \in Rows, NEW direction \in Directions, PushTimeScreen(row, direction)
      PROVE  [Time!Next]_Time!vars
  <2>1. cells[row].name \in Time!Texts /\ direction \in Time!Directions
    BY <1>5, ButtonTexts, SameTexts, SameDirections DEF OrderInv, PushTimeScreen, OpenTimeVC
  <2>2. Time!OpenTimeVC(cells[row].name, Time!DirectionText[direction])
    BY <1>5, SameDirections DEF PushTimeScreen
  <2>. QED
    BY <2>1, <2>2 DEF Time!Next
<1>6. ASSUME NEW row \in 0..(timeRows - 1), DrawTimeCell(row) \/ TrapInTimeCell(row)
      PROVE  [Time!Next]_Time!vars
  BY <1>6 DEF DrawTimeCell, TrapInTimeCell, Time!Next
<1>7. CASE ServerPublishes \/ DismissSheet \/ \E day \in {"weekday", "weekend"} : PresentFullSchedule(day)
  BY <1>3, <1>7 DEF ServerPublishes, DismissSheet, PresentFullSchedule, Publish,
     DismissFullSchedule, OpenFullSchedule, storeVars, viewVars
<1>8. ASSUME NEW row, DrawFullCell(row) \/ TrapInFullCell(row) PROVE [Time!Next]_Time!vars
  BY <1>3, <1>8 DEF DrawFullCell, TrapInFullCell, vars, storeVars, viewVars
<1>9. CASE UNCHANGED appVars
  BY <1>3, <1>9 DEF appVars, vars, storeVars, viewVars
<1>. QED
  BY <1>1, <1>2, <1>4, <1>5, <1>6, <1>7, <1>8, <1>9 DEF AppNext

\* The app gives the time screen the surroundings TimeScreen assumes: a schedule is
\* replaced by a later one only and lost only with the process, the day is stored at
\* the connection, the screen is opened with the text of a published station.
THEOREM TimeImplemented == AppSpec => TimeSpec
<1>1. OrderInv /\ [AppNext]_appVars => [Time!Next]_Time!vars
  BY TimeStep
<1>. QED
  BY <1>1, TimeInit, StartInvariance, PTL DEF AppSpec, TimeSpec, Time!Spec

-----------------------------------------------------------------------------
(* The pushed screen and its sheet.                                        *)

\* What closes the time screen and the sheet.
LEMMA TimeCloses == ASSUME Time!Closed PROVE fromStation' = ""
  BY DEF Time!Closed

LEMMA FullCloses == ASSUME Full!Closed PROVE stationName' = ""
  BY DEF Full!Closed

LEMMA Restarted ==
    ASSUME Connect \/ ProcessEnds
    PROVE  /\ fromStation' = "" /\ stationName' = "" /\ ~timePushed' /\ presented' = "none"
           /\ cells' = [row \in Rows |-> BlankCell] /\ trap' = "no"
  BY TimeCloses, FullCloses DEF Connect, ProcessEnds, ConnectScene, Kill, NoProcess,
     Time!ConnectScene, Time!Kill, Full!ConnectScene, Full!Kill

\* What the start screen presents below a time screen is an alert or nothing new.
LEMMA StartPresents ==
    ASSUME StartScreen
    PROVE  presented' = presented \/ (presented # "full" /\ presented' # "full")
  BY DEF StartScreen, Flush, LoseAnswer, Answer, DeliverFailure, DeliverMalformed, DeliverData,
     Present, TapRetry, TapOk, CellForRowAt

LEMMA PushedStep == OrderInv /\ Pushed /\ [AppNext]_appVars => Pushed'
<1>. SUFFICES ASSUME OrderInv, Pushed, [AppNext]_appVars PROVE Pushed'
  OBVIOUS
<1>1. CASE UNCHANGED <<timePushed, fromStation, toStation>>
  BY <1>1 DEF Pushed
<1>2. CASE Connect \/ ProcessEnds
  BY <1>2, Restarted DEF Pushed
<1>3. CASE PopTimeScreen
  BY <1>3, TimeCloses DEF PopTimeScreen, Back, Time!Back, Pushed
<1>4. ASSUME NEW row \in Rows, NEW direction \in Directions, PushTimeScreen(row, direction)
      PROVE  Pushed'
  <2>1. cells[row].name \in Texts
    BY <1>4, ButtonTexts DEF OrderInv, PushTimeScreen, OpenTimeVC
  <2>2. timePushed' /\ fromStation' = cells[row].name /\ toStation' = DirectionText[direction]
    BY <1>4 DEF PushTimeScreen, OpenTimeVC, Time!OpenTimeVC, Time!SetItems
  <2>. QED
    BY <2>1, <2>2 DEF Pushed
<1>5. Tick \/ ServerPublishes \/ StartScreen \/ DismissSheet
        => UNCHANGED <<timePushed, fromStation, toStation>>
  BY StartFrame DEF Tick, ServerPublishes, DismissSheet, Publish, DismissFullSchedule,
     Time!Tick, Time!screenVars, viewVars, timeVars
<1>6. \A day : PresentFullSchedule(day) => UNCHANGED <<timePushed, fromStation, toStation>>
  BY DEF PresentFullSchedule, OpenFullSchedule, viewVars, timeVars
<1>7. \A row : DrawTimeCell(row) \/ TrapInTimeCell(row)
                 => UNCHANGED <<timePushed, fromStation, toStation>>
  BY DEF DrawTimeCell, TrapInTimeCell, Time!ConfigureCell, Time!ReuseCell, Time!TrapInCell,
     Time!screenVars, vars, viewVars
<1>8. \A row : DrawFullCell(row) \/ TrapInFullCell(row)
                 => UNCHANGED <<timePushed, fromStation, toStation>>
  BY DEF DrawFullCell, TrapInFullCell, vars, viewVars, timeVars
<1>9. UNCHANGED appVars => UNCHANGED <<timePushed, fromStation, toStation>>
  BY DEF appVars, vars, viewVars, timeVars
<1>. QED
  BY <1>1, <1>2, <1>3, <1>4, <1>5, <1>6, <1>7, <1>8, <1>9 DEF AppNext

LEMMA PresentingStep == Presenting /\ [AppNext]_appVars => Presenting'
<1>. SUFFICES ASSUME Presenting, [AppNext]_appVars PROVE Presenting'
  OBVIOUS
<1>1. CASE UNCHANGED <<timePushed, presented, stationName>>
  BY <1>1 DEF Presenting
<1>2. CASE Connect \/ ProcessEnds
  BY <1>2, Restarted DEF Presenting
<1>3. CASE PopTimeScreen \/ \E row \in Rows, direction \in Directions : PushTimeScreen(row, direction)
  BY <1>3 DEF PopTimeScreen, PushTimeScreen, Back, OpenTimeVC, ButtonPressed, fullVars, Presenting
<1>4. CASE StartScreen
  BY <1>4, StartFrame, StartPresents DEF fullVars, Presenting
<1>5. CASE DismissSheet
  BY <1>5, FullCloses DEF DismissSheet, DismissFullSchedule, Full!Dismiss, Presenting
<1>6. ASSUME NEW day, PresentFullSchedule(day) PROVE Presenting'
  BY <1>6 DEF PresentFullSchedule, OpenFullSchedule, viewVars, Presenting
<1>7. Tick \/ ServerPublishes => UNCHANGED <<timePushed, presented, stationName>>
  BY DEF Tick, ServerPublishes, Publish, viewVars, fullVars
<1>8. \A row : DrawTimeCell(row) \/ TrapInTimeCell(row)
                 => UNCHANGED <<timePushed, presented, stationName>>
  BY DEF DrawTimeCell, TrapInTimeCell, vars, viewVars, fullVars
<1>9. \A row : DrawFullCell(row) \/ TrapInFullCell(row)
                 => UNCHANGED <<timePushed, presented, stationName>>
  BY DEF DrawFullCell, TrapInFullCell, Full!ConfigureCell, Full!ReuseCell, Full!TrapInCell,
     Full!sheetVars, vars, viewVars
<1>10. UNCHANGED appVars => UNCHANGED <<timePushed, presented, stationName>>
  BY DEF appVars, vars, viewVars, fullVars
<1>. QED
  BY <1>1, <1>2, <1>3, <1>4, <1>5, <1>6, <1>7, <1>8, <1>9, <1>10 DEF AppNext

LEMMA ScreensInit == AppInit => Pushed /\ Presenting
  BY DEF AppInit, Init, Pushed, Presenting

LEMMA ScreensInvariance == AppSpec => [](Pushed /\ Presenting)
<1>1. OrderInv /\ Pushed /\ Presenting /\ [AppNext]_appVars => Pushed' /\ Presenting'
  BY PushedStep, PresentingStep
<1>. QED
  BY <1>1, ScreensInit, StartInvariance, PTL DEF AppSpec

-----------------------------------------------------------------------------
(* The full schedule in the app.                                           *)

LEMMA FullInit == AppInit => Full!Init
  BY DEF AppInit, Init, Full!Init, Full!NoData, NoData

LEMMA FullStep == OrderInv /\ Pushed /\ [AppNext]_appVars => [Full!Next]_Full!vars
<1>. SUFFICES ASSUME OrderInv, Pushed, [AppNext]_appVars PROVE [Full!Next]_Full!vars
  OBVIOUS
<1>1. CASE Connect \/ ProcessEnds \/ DismissSheet
  BY <1>1 DEF Connect, ProcessEnds, DismissSheet, Full!Next
<1>2. ASSUME UNCHANGED <<allData, screen, fullVars>>, UNCHANGED trap \/ (Alive /\ trap' = "time")
      PROVE  [Full!Next]_Full!vars
  BY <1>2 DEF Alive, fullVars, Full!vars, Full!sheetVars
<1>3. CASE StartScreen
  <2>1. /\ Alive
        /\ UNCHANGED <<dayOfWeek, screen, timePushed, clockVars, timeVars, fullVars, trap>>
        /\ UNCHANGED <<allData, savedBy>> \/ DeliverData
    BY <1>3, StartFrame
  <2>2. CASE UNCHANGED allData
    BY <1>2, <2>1, <2>2
  <2>3. CASE allData' # allData
    <3>1. allData' \in Versions /\ allData' > allData
      BY <2>1, <2>3, DeliveredSchedule DEF Alive, Versions
    <3>2. Full!StoreSchedule
      BY <2>1, <3>1 DEF Alive, fullVars, Full!StoreSchedule, Full!sheetVars, Full!Versions, Versions
    <3>. QED
      BY <3>2 DEF Full!Next
  <2>. QED
    BY <2>2, <2>3
<1>4. ASSUME NEW day \in {"weekday", "weekend"}, PresentFullSchedule(day)
      PROVE  [Full!Next]_Full!vars
  <2>1. timePushed
    BY <1>4 DEF PresentFullSchedule, OpenFullSchedule
  <2>2. PICK d \in Directions : toStation = DirectionText[d]
    BY <2>1 DEF Pushed
  <2>3. fromStation \in Full!Texts /\ d \in Full!Directions /\ toStation = Full!DirectionText[d]
    BY <2>1, <2>2, SameTexts, SameDirections DEF Pushed
  <2>4. Full!OpenWeekdayVC(fromStation, Full!DirectionText[d], day)
    BY <1>4, <2>3 DEF PresentFullSchedule
  <2>. QED
    BY <2>3, <2>4 DEF Full!Next
<1>5. ASSUME NEW row \in 0..(fullRows - 1), DrawFullCell(row) \/ TrapInFullCell(row)
      PROVE  [Full!Next]_Full!vars
  BY <1>5 DEF DrawFullCell, TrapInFullCell, Full!Next
<1>6. CASE Tick \/ ServerPublishes \/ PopTimeScreen
  BY <1>2, <1>6 DEF Tick, ServerPublishes, Publish, PopTimeScreen, Back, storeVars, viewVars
<1>7. ASSUME NEW row \in Rows, NEW direction \in Directions, PushTimeScreen(row, direction)
      PROVE  [Full!Next]_Full!vars
  BY <1>2, <1>7 DEF PushTimeScreen, OpenTimeVC, storeVars
<1>8. ASSUME NEW row, DrawTimeCell(row) \/ TrapInTimeCell(row) PROVE [Full!Next]_Full!vars
  BY <1>2, <1>8 DEF DrawTimeCell, TrapInTimeCell, vars, storeVars, viewVars
<1>9. CASE UNCHANGED appVars
  BY <1>2, <1>9 DEF appVars, vars, storeVars, viewVars
<1>. QED
  BY <1>1, <1>3, <1>4, <1>5, <1>6, <1>7, <1>8, <1>9 DEF AppNext

\* The app gives the full schedule the surroundings FullSchedule assumes: it is
\* presented with the texts of a published station and of a direction, over a
\* schedule that only a download of the running process replaces by a later one.
THEOREM FullImplemented == AppSpec => FullSpec
<1>1. OrderInv /\ Pushed /\ [AppNext]_appVars => [Full!Next]_Full!vars
  BY FullStep
<1>. QED
  BY <1>1, FullInit, StartInvariance, ScreensInvariance, PTL DEF AppSpec, FullSpec, Full!Spec

-----------------------------------------------------------------------------
(* From a cell to the time sheet.                                          *)

\* The enumerations find a case again by its raw value.
LEMMA TextsFound ==
    /\ \A s \in Stations : IsStationText(StationText[s]) /\ StationOfText(StationText[s]) = s
    /\ \A d \in Directions : DirectionOfText(DirectionText[d]) = d
<1>1. \A s, r \in Stations : StationText[s] = StationText[r] => s = r
  <2>1. /\ StationText["kovalskaya"] = "Kovalskaya sloboda"
        /\ StationText["vokzalnaya"] = "Vokzalnaya"
        /\ StationText["bogushevicha"] = "Pl. Frantishka Bogushevicha"
        /\ StationText["ubileynaya"] = "Yubileynaya ploshchad"
    BY DEF StationText
  <2>. QED
    BY <2>1 DEF Stations
<1>2. \A d, e \in Directions : DirectionText[d] = DirectionText[e] => d = e
  <2>1. /\ DirectionText["toKovalskayaTimeSheet"] = "Na Kovalskuyu"
        /\ DirectionText["toUbileynayaTimeSheet"] = "Na Yubileynuyu"
    BY DEF DirectionText
  <2>. QED
    BY <2>1 DEF Directions
<1>3. \A s \in Stations : IsStationText(StationText[s]) /\ StationOfText(StationText[s]) = s
  BY <1>1, Zenon DEF IsStationText, StationOfText
<1>4. \A d \in Directions : DirectionOfText(DirectionText[d]) = d
  BY <1>2, Zenon DEF DirectionOfText
<1>. QED
  BY <1>3, <1>4

Leads(cell, v, day) ==
    \A direction \in cell.dirs : SheetFound(v, day, cell.name, DirectionText[direction])

LEMMA ConfiguredLeads ==
    ASSUME TypeOK, NamesMatch, NEW row \in Rows, Configurable(row)
    PROVE  Leads(ConfiguredCell(row), allData, dayOfWeek)
<1>. DEFINE s == StationOfRow[row]
            station == Content[allData][dayOfWeek][s]
<1>1. s \in Stations
  <2>1. row \in 0..3
    BY DEF Configurable, StationOfRow
  <2>2. \A r \in 0..3 : StationOfRow[r] \in Stations
    BY DEF StationOfRow, Stations
  <2>. QED
    BY <2>1, <2>2
<1>2. HasStation(allData, dayOfWeek, s)
  BY DEF Configurable
<1>3. allData \in Versions /\ dayOfWeek \in DOMAIN Content[allData]
  <2>1. allData \in 0..MaxVersion /\ allData # NoData
    BY <1>2 DEF TypeOK, HasStation, HasDay
  <2>2. allData \in Versions
    BY <2>1, MaxVersionAssumption DEF NoData, Versions
  <2>. QED
    BY <1>2, <2>2 DEF HasStation, HasDay
<1>4. station.name = StationText[s]
  BY <1>1, <1>2, <1>3 DEF NamesMatch, HasStation
<1>. HIDE DEF s
<1>5. ConfiguredCell(row) = [name |-> station.name, dirs |-> DOMAIN station.sheets \cap Directions]
  BY DEF ConfiguredCell, s
<1>6. /\ ConfiguredCell(row).name = StationText[s]
      /\ ConfiguredCell(row).dirs = DOMAIN station.sheets \cap Directions
  BY <1>4, <1>5
<1>7. ASSUME NEW direction \in DOMAIN station.sheets \cap Directions
      PROVE  SheetFound(allData, dayOfWeek, StationText[s], DirectionText[direction])
  BY <1>1, <1>2, TextsFound DEF SheetFound, HasSheet
<1>. QED
  BY <1>6, <1>7 DEF Leads

LEMMA CellsLeadStep == OrderInv /\ CellsLead /\ [AppNext]_appVars => CellsLead'
<1>. SUFFICES ASSUME OrderInv, CellsLead, [AppNext]_appVars, NamesMatch, savedBy' = 0,
                     NEW row \in Rows
              PROVE  Leads(cells'[row], allData', dayOfWeek')
  BY DEF CellsLead, Leads
<1>0. TypeOK
  BY DEF OrderInv
<1>1. CASE UNCHANGED <<allData, dayOfWeek, savedBy, cells>>
  BY <1>1 DEF CellsLead, Leads
<1>2. CASE Connect \/ ProcessEnds
  <2>1. cells'[row] = BlankCell
    BY <1>2, Restarted
  <2>. QED
    BY <2>1 DEF BlankCell, Leads
<1>3. ASSUME NEW drawn \in Rows, CellForRowAt(drawn)
      PROVE  Leads(cells'[row], allData', dayOfWeek')
  <2>1. UNCHANGED <<allData, dayOfWeek, savedBy>>
    BY <1>3 DEF CellForRowAt, storeVars
  <2>2. \A r \in Rows : Leads(cells[r], allData, dayOfWeek)
    BY <2>1 DEF CellsLead, Leads
  <2>3. Leads(BlankCell, allData, dayOfWeek)
    BY DEF BlankCell, Leads
  <2>4. PICK content : /\ cells' = [cells EXCEPT ![drawn] = content]
                       /\ Leads(content, allData, dayOfWeek)
    <3>1. CASE Configurable(drawn)
      BY <1>0, <1>3, <3>1, ConfiguredLeads DEF CellForRowAt
    <3>2. CASE ~Configurable(drawn)
      BY <1>3, <2>2, <2>3, <3>2 DEF CellForRowAt
    <3>. QED
      BY <3>1, <3>2
  <2>5. cells'[row] = content \/ cells'[row] = cells[row]
    BY <1>0, <2>4 DEF TypeOK
  <2>. QED
    BY <2>1, <2>2, <2>4, <2>5
<1>4. CASE StartScreen
  <2>1. CASE \E drawn \in Rows : CellForRowAt(drawn)
    BY <1>3, <2>1
  <2>2. CASE DeliverData
    <3>1. savedBy' # 0
      BY <1>4, <2>2, DeliveredSchedule DEF StartScreen, Alive
    <3>. QED
      BY <3>1
  <2>3. \/ \E drawn \in Rows : CellForRowAt(drawn)
        \/ DeliverData
        \/ UNCHANGED <<allData, dayOfWeek, savedBy, cells>>
    BY <1>4 DEF StartScreen, Flush, LoseAnswer, Answer, DeliverFailure, DeliverMalformed, TapRetry,
       TapOk, storeVars, viewVars
  <2>. QED
    BY <1>1, <2>1, <2>2, <2>3
<1>5. Tick \/ ServerPublishes \/ PopTimeScreen \/ DismissSheet
        => UNCHANGED <<allData, dayOfWeek, savedBy, cells>>
  BY DEF Tick, ServerPublishes, PopTimeScreen, DismissSheet, Publish, Back, DismissFullSchedule,
     storeVars, viewVars
<1>6. \A r, direction : PushTimeScreen(r, direction) => UNCHANGED <<allData, dayOfWeek, savedBy, cells>>
  BY DEF PushTimeScreen, OpenTimeVC, storeVars
<1>7. \A day : PresentFullSchedule(day) => UNCHANGED <<allData, dayOfWeek, savedBy, cells>>
  BY DEF PresentFullSchedule, OpenFullSchedule, storeVars, viewVars
<1>8. \A r : DrawTimeCell(r) \/ TrapInTimeCell(r) \/ DrawFullCell(r) \/ TrapInFullCell(r)
               => UNCHANGED <<allData, dayOfWeek, savedBy, cells>>
  BY DEF DrawTimeCell, TrapInTimeCell, DrawFullCell, TrapInFullCell, vars, storeVars, viewVars
<1>9. UNCHANGED appVars => UNCHANGED <<allData, dayOfWeek, savedBy, cells>>
  BY DEF appVars, vars, storeVars, viewVars
<1>. QED
  BY <1>1, <1>2, <1>4, <1>5, <1>6, <1>7, <1>8, <1>9 DEF AppNext

LEMMA OpenedWith ==
    ASSUME NEW row, NEW direction, PushTimeScreen(row, direction)
    PROVE  opened'.data = allData
<1>1. PICK at, cur : opened' = [at |-> at, cur |-> cur, data |-> allData]
  BY DEF PushTimeScreen, Time!OpenTimeVC
<1>2. [at |-> at, cur |-> cur, data |-> allData].data = allData
  OBVIOUS
<1>. QED
  BY <1>1, <1>2

LEMMA CachedStep ==
    OrderInv /\ CellsLead /\ CachedCellsLead /\ [AppNext]_appVars => CachedCellsLead'
<1>. SUFFICES ASSUME OrderInv, CellsLead, CachedCellsLead, [AppNext]_appVars, NamesMatch,
                     fromStation' # "", savedBy' = 0
              PROVE  SheetFound(opened'.data, dayOfWeek', fromStation', toStation')
  BY DEF CachedCellsLead
<1>. DEFINE kept == UNCHANGED <<opened, dayOfWeek, savedBy, fromStation, toStation>>
<1>1. CASE kept
  BY <1>1 DEF CachedCellsLead
<1>2. CASE Connect \/ ProcessEnds \/ PopTimeScreen
  BY <1>2, Restarted, TimeCloses DEF PopTimeScreen, Time!Back
<1>3. CASE StartScreen
  <2>1. /\ Alive
        /\ UNCHANGED <<dayOfWeek, screen, timePushed, clockVars, timeVars, fullVars, trap>>
        /\ UNCHANGED <<allData, savedBy>> \/ DeliverData
    BY <1>3, StartFrame
  <2>2. ~DeliverData
    BY <2>1, DeliveredSchedule DEF Alive
  <2>. QED
    BY <1>1, <2>1, <2>2 DEF timeVars
<1>4. ASSUME NEW row \in Rows, NEW direction \in Directions, PushTimeScreen(row, direction)
      PROVE  SheetFound(opened'.data, dayOfWeek', fromStation', toStation')
  <2>1. /\ direction \in cells[row].dirs
        /\ UNCHANGED <<dayOfWeek, savedBy>>
    BY <1>4 DEF PushTimeScreen, OpenTimeVC, ButtonPressed, storeVars
  <2>2. SheetFound(allData, dayOfWeek, cells[row].name, DirectionText[direction])
    BY <2>1 DEF CellsLead
  <2>3. fromStation' = cells[row].name /\ toStation' = DirectionText[direction]
    BY <1>4 DEF PushTimeScreen, Time!OpenTimeVC, Time!SetItems
  <2>4. opened'.data = allData
    BY <1>4, OpenedWith
  <2>. QED
    BY <2>1, <2>2, <2>3, <2>4
<1>5. Tick \/ ServerPublishes \/ DismissSheet => kept
  BY DEF Tick, ServerPublishes, DismissSheet, Publish, DismissFullSchedule, Time!Tick,
     Time!screenVars, storeVars, timeVars
<1>6. \A day : PresentFullSchedule(day) => kept
  BY DEF PresentFullSchedule, OpenFullSchedule, storeVars, timeVars
<1>7. \A row : DrawTimeCell(row) \/ TrapInTimeCell(row) => kept
  BY DEF DrawTimeCell, TrapInTimeCell, Time!ConfigureCell, Time!ReuseCell, Time!TrapInCell,
     Time!screenVars, vars, storeVars
<1>8. \A row : DrawFullCell(row) \/ TrapInFullCell(row) => kept
  BY DEF DrawFullCell, TrapInFullCell, vars, storeVars, timeVars
<1>9. UNCHANGED appVars => kept
  BY DEF appVars, vars, storeVars, timeVars
<1>. HIDE DEF kept
<1>. QED
  BY <1>1, <1>2, <1>3, <1>4, <1>5, <1>6, <1>7, <1>8, <1>9 DEF AppNext

\* Who lives on the cached schedule never meets a time screen without a sheet: the
\* cell's texts, reused cells included, lead back to the sheet whose button it shows,
\* over days, scenes and kills, until a download replaces the schedule.
THEOREM CachedCells == AppSpec => []CachedCellsLead
<1>1. AppInit => CellsLead /\ CachedCellsLead
  <2>. SUFFICES ASSUME AppInit PROVE CellsLead /\ CachedCellsLead
    OBVIOUS
  <2>1. \A row \in Rows : cells[row] = BlankCell
    BY DEF AppInit, Init
  <2>2. CellsLead
    BY <2>1 DEF CellsLead, BlankCell
  <2>. QED
    BY <2>2 DEF AppInit, CachedCellsLead
<1>2. OrderInv /\ CellsLead /\ CachedCellsLead /\ [AppNext]_appVars => CellsLead' /\ CachedCellsLead'
  BY CellsLeadStep, CachedStep
<1>. QED
  BY <1>1, <1>2, StartInvariance, PTL DEF AppSpec

-----------------------------------------------------------------------------
(* Traps.                                                                  *)

LEMMA QuietStep ==
    OrderInv /\ Pushed /\ Presenting /\ Quiet /\ [AppNext]_appVars => Quiet'
<1>. SUFFICES ASSUME OrderInv, Presenting, Quiet, [AppNext]_appVars, timePushed', ~pendingAtOpen'
              PROVE  /\ ~Pending' /\ presented' \in {"none", "full"} /\ opened'.data = allData'
                     /\ stationName' # "" => counted' = allData'
  BY DEF Quiet
<1>. DEFINE quiet == /\ ~Pending' /\ presented' \in {"none", "full"} /\ opened'.data = allData'
                     /\ stationName' # "" => counted' = allData'
            kept == UNCHANGED <<timePushed, pendingAtOpen, inflight, mainQueue, opened, allData>>
<1>. SUFFICES quiet
  OBVIOUS
<1>1. ASSUME kept, UNCHANGED <<presented, stationName, counted>> PROVE quiet
  BY <1>1 DEF Quiet, Pending
<1>2. CASE Connect \/ ProcessEnds
  BY <1>2, Restarted
<1>3. CASE PopTimeScreen
  BY <1>3 DEF PopTimeScreen, Back
<1>4. CASE StartScreen
  <2>1. /\ UNCHANGED <<dayOfWeek, screen, timePushed, clockVars, timeVars, fullVars, trap>>
    BY <1>4, StartFrame
  <2>2. ~Pending /\ presented \in {"none", "full"}
    BY <2>1 DEF Quiet, timeVars
  <2>3. /\ \A s \in Screens : ~(inflight[s] > 0)
        /\ mainQueue = <<>> /\ presented # "error" /\ presented # "success"
    BY <2>2 DEF Pending
  <2>4. Flush \/ \E row \in Rows : CellForRowAt(row)
    BY <1>4, <2>3 DEF StartScreen, LoseAnswer, Answer, DeliverFailure, DeliverMalformed, DeliverData,
       TapRetry, TapOk
  <2>5. UNCHANGED <<inflight, mainQueue, allData, presented>>
    BY <2>4 DEF Flush, CellForRowAt, storeVars
  <2>. QED
    BY <1>1, <2>1, <2>5 DEF timeVars, fullVars
<1>5. ASSUME NEW row \in Rows, NEW direction \in Directions, PushTimeScreen(row, direction)
      PROVE  quiet
  <2>1. /\ UNCHANGED <<inflight, mainQueue, allData, presented, stationName>>
        /\ presented = "none" /\ pendingAtOpen' = Pending
    BY <1>5 DEF PushTimeScreen, OpenTimeVC, ButtonPressed, storeVars, fullVars
  <2>2. opened'.data = allData
    BY <1>5, OpenedWith
  <2>3. stationName = ""
    BY <2>1 DEF Presenting
  <2>4. ~Pending'
    BY <2>1 DEF Pending
  <2>. QED
    BY <2>1, <2>2, <2>3, <2>4
<1>6. ASSUME NEW day, PresentFullSchedule(day) PROVE quiet
  <2>1. kept /\ presented' = "full" /\ counted' = allData
    BY <1>6 DEF PresentFullSchedule, OpenFullSchedule, Full!OpenWeekdayVC, storeVars, viewVars,
       timeVars
  <2>. QED
    BY <2>1 DEF Quiet, Pending
<1>7. CASE DismissSheet
  <2>1. kept /\ presented' = "none" /\ stationName' = ""
    BY <1>7, FullCloses DEF DismissSheet, DismissFullSchedule, Full!Dismiss, storeVars, viewVars,
       timeVars
  <2>. QED
    BY <2>1 DEF Quiet, Pending
<1>8. Tick \/ ServerPublishes => kept /\ UNCHANGED <<presented, stationName, counted>>
  BY DEF Tick, ServerPublishes, Publish, Time!Tick, Time!screenVars, storeVars, viewVars,
     timeVars, fullVars
<1>9. \A row : DrawTimeCell(row) \/ TrapInTimeCell(row)
                 => kept /\ UNCHANGED <<presented, stationName, counted>>
  BY DEF DrawTimeCell, TrapInTimeCell, Time!ConfigureCell, Time!ReuseCell, Time!TrapInCell,
     Time!screenVars, vars, storeVars, viewVars, fullVars
<1>10. \A row : DrawFullCell(row) \/ TrapInFullCell(row)
                 => kept /\ UNCHANGED <<presented, stationName, counted>>
  BY DEF DrawFullCell, TrapInFullCell, Full!ConfigureCell, Full!ReuseCell, Full!TrapInCell,
     Full!sheetVars, vars, storeVars, viewVars, timeVars
<1>11. UNCHANGED appVars => kept /\ UNCHANGED <<presented, stationName, counted>>
  BY DEF appVars, vars, storeVars, viewVars, timeVars, fullVars
<1>. HIDE DEF kept, quiet
<1>. QED
  BY <1>1, <1>2, <1>3, <1>4, <1>5, <1>6, <1>7, <1>8, <1>9, <1>10, <1>11 DEF AppNext

LEMMA QuietInvariance == AppSpec => []Quiet
<1>1. AppInit => Quiet
  BY DEF AppInit, Init, Quiet
<1>2. OrderInv /\ Pushed /\ Presenting /\ Quiet /\ [AppNext]_appVars => Quiet'
  BY QuietStep
<1>. QED
  BY <1>1, <1>2, StartInvariance, ScreensInvariance, PTL DEF AppSpec

-----------------------------------------------------------------------------
(* What was proved of the screens holds in the app.                        *)

\* TimeP and FullP are the screens again, with the proofs about them.
LEMMA SameTimeSpec == Time!Spec => TimeP!Spec
<1>1. Time!Init => TimeP!Init
  BY Zenon DEF Time!Init, TimeP!Init, Time!Days, TimeP!Days, Time!NoData, TimeP!NoData, Time!NoTime,
     TimeP!NoTime
<1>2. [Time!Next]_Time!vars => [TimeP!Next]_TimeP!vars
  BY Zenon
  DEF Time!NoData, TimeP!NoData, Time!Versions, TimeP!Versions, Time!HasDay, TimeP!HasDay,
      Time!HasStation, TimeP!HasStation, Time!HasSheet, TimeP!HasSheet, Time!Sheet, TimeP!Sheet,
      Time!SheetFound, TimeP!SheetFound, Time!TimeSheet, TimeP!TimeSheet, Time!Texts, TimeP!Texts,
      Time!Directions, TimeP!Directions, Time!DirectionText, TimeP!DirectionText,
      Time!DirectionOfText, TimeP!DirectionOfText, Time!Stations, TimeP!Stations, Time!StationText,
      TimeP!StationText, Time!IsStationText, TimeP!IsStationText, Time!StationOfText,
      TimeP!StationOfText, Time!Hour, TimeP!Hour, Time!HourSet, TimeP!HourSet, Time!HourOfRow,
      TimeP!HourOfRow, Time!HourShown, TimeP!HourShown, Time!RowPositions, TimeP!RowPositions,
      Time!RowCell, TimeP!RowCell, Time!RowCount, TimeP!RowCount, Time!RowInRange, TimeP!RowInRange,
      Time!BlankRow, TimeP!BlankRow, Time!Drawn, TimeP!Drawn, Time!Reusable, TimeP!Reusable,
      Time!Cardinality, TimeP!Cardinality, Time!IsFiniteSet, TimeP!IsFiniteSet, Time!Days,
      TimeP!Days, Time!Day, TimeP!Day, Time!DayNames, TimeP!DayNames, Time!DayName, TimeP!DayName,
      Time!GmtDayName, TimeP!GmtDayName, Time!DayOfWeekKey, TimeP!DayOfWeekKey, Time!DayOfWeekLabel,
      TimeP!DayOfWeekLabel, Time!CurrentTimeFromStartDay, TimeP!CurrentTimeFromStartDay, Time!HHmm,
      TimeP!HHmm, Time!Upcoming, TimeP!Upcoming, Time!NoTime, TimeP!NoTime, Time!AfterMidnight,
      TimeP!AfterMidnight, Time!ServiceTime, TimeP!ServiceTime, Time!NextTime, TimeP!NextTime,
      Time!sharedVars, TimeP!sharedVars, Time!screenVars, TimeP!screenVars, Time!vars, TimeP!vars,
      Time!IsOpen, TimeP!IsOpen, Time!Closed, TimeP!Closed, Time!Init, TimeP!Init, Time!Tick,
      TimeP!Tick, Time!StoreSchedule, TimeP!StoreSchedule, Time!ConnectScene, TimeP!ConnectScene,
      Time!Kill, TimeP!Kill, Time!SetItems, TimeP!SetItems, Time!OpenTimeVC, TimeP!OpenTimeVC,
      Time!CellReadings, TimeP!CellReadings, Time!ConfigureCell, TimeP!ConfigureCell,
      Time!TrapInCell, TimeP!TrapInCell, Time!ReuseCell, TimeP!ReuseCell, Time!Back, TimeP!Back,
      Time!Next, TimeP!Next
<1>. QED
  BY <1>1, <1>2, PTL DEF Time!Spec, TimeP!Spec

LEMMA SameFullSpec == Full!Spec => FullP!Spec
<1>1. Full!Init => FullP!Init
  BY Zenon DEF Full!Init, FullP!Init, Full!NoData, FullP!NoData
<1>2. [Full!Next]_Full!vars => [FullP!Next]_FullP!vars
  BY Zenon
  DEF Full!NoData, FullP!NoData, Full!Versions, FullP!Versions, Full!HasDay, FullP!HasDay,
      Full!HasStation, FullP!HasStation, Full!HasSheet, FullP!HasSheet, Full!Sheet, FullP!Sheet,
      Full!SheetFound, FullP!SheetFound, Full!TimeSheet, FullP!TimeSheet, Full!Texts, FullP!Texts,
      Full!Directions, FullP!Directions, Full!DirectionText, FullP!DirectionText,
      Full!DirectionOfText, FullP!DirectionOfText, Full!Stations, FullP!Stations, Full!StationText,
      FullP!StationText, Full!IsStationText, FullP!IsStationText, Full!StationOfText,
      FullP!StationOfText, Full!Hour, FullP!Hour, Full!HourSet, FullP!HourSet, Full!HourOfRow,
      FullP!HourOfRow, Full!HourShown, FullP!HourShown, Full!RowPositions, FullP!RowPositions,
      Full!RowCell, FullP!RowCell, Full!RowCount, FullP!RowCount, Full!RowInRange, FullP!RowInRange,
      Full!BlankRow, FullP!BlankRow, Full!Drawn, FullP!Drawn, Full!Reusable, FullP!Reusable,
      Full!Cardinality, FullP!Cardinality, Full!IsFiniteSet, FullP!IsFiniteSet, Full!Days,
      FullP!Days, Full!DayTypeText, FullP!DayTypeText, Full!DayOfTypeText, FullP!DayOfTypeText,
      Full!HHmm, FullP!HHmm, Full!sheetVars, FullP!sheetVars, Full!vars, FullP!vars, Full!IsOpen,
      FullP!IsOpen, Full!Closed, FullP!Closed, Full!Init, FullP!Init, Full!StoreSchedule,
      FullP!StoreSchedule, Full!ConnectScene, FullP!ConnectScene, Full!Kill, FullP!Kill,
      Full!RowsOf, FullP!RowsOf, Full!SetNumberOfRow, FullP!SetNumberOfRow, Full!SetItems,
      FullP!SetItems, Full!OpenWeekdayVC, FullP!OpenWeekdayVC, Full!ShownDay, FullP!ShownDay,
      Full!ShownSheet, FullP!ShownSheet, Full!Drawing, FullP!Drawing, Full!CellFound,
      FullP!CellFound, Full!ConfigureCell, FullP!ConfigureCell, Full!TrapInCell, FullP!TrapInCell,
      Full!ReuseCell, FullP!ReuseCell, Full!Dismiss, FullP!Dismiss, Full!Next, FullP!Next
<1>. QED
  BY <1>1, <1>2, PTL DEF Full!Spec, FullP!Spec

\* The assumptions of the screens are those of the app.
LEMMA TimeTheorems ==
    /\ TimeP!Spec => TimeP!NoTrapBeforeDeparture
    /\ TimeP!Spec => []TimeP!RowsKeepTheirHour
    /\ TimeP!Spec => []TimeP!LabelLeadsTableByDay
    /\ TimeP!Spec => []TimeP!HeadingNamesSchedule
<1>. USE MaxVersionAssumption, ContentAssumption, TzOffsetAssumption, SheetsAssumption,
         AscendingAssumption, ServiceDayAssumption, AppInstantsAssumption
     DEF TimeP!Versions, Versions, TimeP!Times, Times, TimeP!IsFiniteSet, IsFiniteSet,
         TimeP!Day, Day, TimeP!Hour, Hour
<1>1. TimeP!Spec => TimeP!NoTrapBeforeDeparture
  BY TimeP!TrapNeedsDeparture, Zenon
<1>2. TimeP!Spec => []TimeP!RowsKeepTheirHour
  BY TimeP!RowsKeepHour, Zenon
<1>3. TimeP!Spec => []TimeP!LabelLeadsTableByDay
  BY TimeP!LabelLeads, Zenon
<1>4. TimeP!Spec => []TimeP!HeadingNamesSchedule
  BY TimeP!HeadingIsOfSchedule, Zenon
<1>. QED
  BY <1>1, <1>2, <1>3, <1>4

LEMMA FullTheorems ==
    /\ FullP!Spec => []FullP!TrapNeedsFewerHours
    /\ FullP!Spec => []FullP!WeekdayIsFull
<1>. USE MaxVersionAssumption, ContentAssumption, TzOffsetAssumption, SheetsAssumption,
         AscendingAssumption, ServiceDayAssumption
     DEF FullP!Versions, Versions, FullP!Times, Times, FullP!IsFiniteSet, IsFiniteSet,
         FullP!Day, Day, FullP!Hour, Hour
<1>1. FullP!Spec => []FullP!TrapNeedsFewerHours
  BY FullP!TrapNeedsFewer, Zenon
<1>2. FullP!Spec => []FullP!WeekdayIsFull
  BY FullP!WeekdayFull, Zenon
<1>. QED
  BY <1>1, <1>2

\* In the app too a weekday sheet survives its table and shows every departure once,
\* below downloads, kills and new scenes, while the schedule its rows were counted
\* from is stored.
THEOREM WeekdaySheetFull == AppSpec => []WeekdaySheetIsFull
<1>1. FullP!WeekdayIsFull => WeekdaySheetIsFull
  BY Zenon
  DEF WeekdaySheetIsFull, Full!WeekdayIsFull, FullP!WeekdayIsFull, Full!FullScheduleIsFull, FullP!FullScheduleIsFull,
      Full!ShowsWholeSheet, FullP!ShowsWholeSheet, Full!AllDrawn, FullP!AllDrawn, Full!CellFound,
      FullP!CellFound, Full!ShownSheet, FullP!ShownSheet, Full!ShownDay, FullP!ShownDay,
      Full!IsOpen, FullP!IsOpen, Full!DayTypeText, FullP!DayTypeText, Full!DayOfTypeText,
      FullP!DayOfTypeText, Full!Days, FullP!Days, Full!SheetFound, FullP!SheetFound, Full!TimeSheet,
      FullP!TimeSheet, Full!Sheet, FullP!Sheet, Full!HasSheet, FullP!HasSheet, Full!HasStation,
      FullP!HasStation, Full!HasDay, FullP!HasDay, Full!NoData, FullP!NoData, Full!IsStationText,
      FullP!IsStationText, Full!StationOfText, FullP!StationOfText, Full!Stations, FullP!Stations,
      Full!StationText, FullP!StationText, Full!DirectionOfText, FullP!DirectionOfText,
      Full!Directions, FullP!Directions, Full!DirectionText, FullP!DirectionText, Full!HHmm,
      FullP!HHmm, Full!Hour, FullP!Hour
<1>. QED
  BY <1>1, FullImplemented, SameFullSpec, FullTheorems, PTL DEF FullSpec

\* A subscript out of range needs more than this app and its user: an hour that has
\* passed on the time screen, a weekend with fewer hours, or a download that was
\* already on its way when the time screen was opened; retries, new scenes and kills
\* start no download that could reach an open table.
THEOREM TrapNeedsDownload == AppSpec => TrapNeedsPendingDownload
<1>. DEFINE TimeTrap == [(trap = "time")' /\ ~(trap = "time")
                            => allData # opened.data \/ TimeP!HourPassed]_TimeP!vars
            AppTrap == [trap = "no" /\ trap' # "no" =>
                          \/ pendingAtOpen
                          \/ trap' = "time" /\ Time!HourPassed
                          \/ trap' = "full" /\ ShortWeekend]_appVars
<1>1. Pushed /\ Presenting /\ Quiet /\ [AppNext]_appVars /\ TimeTrap /\ FullP!TrapNeedsFewerHours'
        => AppTrap
  <2>. SUFFICES ASSUME Pushed, Presenting, Quiet, [AppNext]_appVars, TimeTrap,
                       FullP!TrapNeedsFewerHours', trap = "no", trap' # "no", ~pendingAtOpen
                PROVE  \/ trap' = "time" /\ Time!HourPassed
                       \/ trap' = "full" /\ ShortWeekend
    OBVIOUS
  <2>1. \/ \E row \in 0..(timeRows - 1) : TrapInTimeCell(row)
        \/ \E row \in 0..(fullRows - 1) : TrapInFullCell(row)
    <3>1. Tick \/ ServerPublishes \/ StartScreen \/ PopTimeScreen \/ DismissSheet => UNCHANGED trap
      BY StartFrame DEF Tick, ServerPublishes, PopTimeScreen, DismissSheet
    <3>2. Connect \/ ProcessEnds => trap' = "no"
      BY Restarted
    <3>3. \A row, direction : PushTimeScreen(row, direction) => UNCHANGED trap
      BY DEF PushTimeScreen
    <3>4. \A row : DrawTimeCell(row) \/ DrawFullCell(row) => UNCHANGED trap
      BY DEF DrawTimeCell, DrawFullCell
    <3>5. \A day : PresentFullSchedule(day) => UNCHANGED trap
      BY DEF PresentFullSchedule
    <3>6. UNCHANGED appVars => UNCHANGED trap
      BY DEF appVars
    <3>. QED
      BY <3>1, <3>2, <3>3, <3>4, <3>5, <3>6 DEF AppNext
  <2>2. ASSUME NEW row \in 0..(timeRows - 1), TrapInTimeCell(row)
        PROVE  trap' = "time" /\ Time!HourPassed
    <3>1. trap' = "time" /\ fromStation # ""
      BY <2>2 DEF TrapInTimeCell, Time!TrapInCell, Time!IsOpen
    <3>2. opened.data = allData
      BY <3>1 DEF Pushed, Quiet
    <3>3. TimeP!vars' # TimeP!vars
      BY <3>1 DEF TimeP!vars
    <3>4. TimeP!HourPassed
      BY <3>1, <3>2, <3>3
    <3>5. Time!HourPassed
      BY <3>4, Zenon
      DEF Time!HourPassed, TimeP!HourPassed, Time!HasOpenedSheet, TimeP!HasOpenedSheet,
          Time!OpenedSheet, TimeP!OpenedSheet, Time!OpenedHours, TimeP!OpenedHours, Time!IsOpen,
          TimeP!IsOpen, Time!SheetFound, TimeP!SheetFound, Time!TimeSheet, TimeP!TimeSheet,
          Time!Sheet, TimeP!Sheet, Time!HasSheet, TimeP!HasSheet, Time!HasStation, TimeP!HasStation,
          Time!HasDay, TimeP!HasDay, Time!NoData, TimeP!NoData, Time!IsStationText,
          TimeP!IsStationText, Time!StationOfText, TimeP!StationOfText, Time!Stations,
          TimeP!Stations, Time!StationText, TimeP!StationText, Time!DirectionOfText,
          TimeP!DirectionOfText, Time!Directions, TimeP!Directions, Time!DirectionText,
          TimeP!DirectionText, Time!Upcoming, TimeP!Upcoming, Time!HourSet, TimeP!HourSet,
          Time!Hour, TimeP!Hour, Time!Day, TimeP!Day
    <3>. QED
      BY <3>1, <3>5
  <2>3. ASSUME NEW row \in 0..(fullRows - 1), TrapInFullCell(row)
        PROVE  trap' = "full" /\ ShortWeekend
    <3>1. /\ trap' = "full" /\ stationName # ""
          /\ UNCHANGED <<allData, counted, dayType, stationName, toStationName>>
      BY <2>3 DEF TrapInFullCell, Full!TrapInCell, Full!Drawing, Full!IsOpen, Full!sheetVars
    <3>2. counted = allData
      BY <3>1 DEF Presenting, Quiet
    <3>3. /\ dayType = FullP!DayTypeText["weekend"]
          /\ FullP!RowsOf(allData, "weekend", stationName, toStationName)
               < FullP!RowsOf(allData, "weekday", stationName, toStationName)
      BY <3>1, <3>2 DEF FullP!TrapNeedsFewerHours
    <3>4. ShortWeekend
      BY <3>3, Zenon
      DEF ShortWeekend, DayTypeText, FullP!DayTypeText,
          Full!RowsOf, FullP!RowsOf, Full!TimeSheet, FullP!TimeSheet, Full!Sheet, FullP!Sheet,
          Full!StationOfText, FullP!StationOfText, Full!Stations, FullP!Stations, Full!StationText,
          FullP!StationText, Full!DirectionOfText, FullP!DirectionOfText, Full!Directions,
          FullP!Directions, Full!DirectionText, FullP!DirectionText, Full!RowCount, FullP!RowCount,
          Full!HourSet, FullP!HourSet, Full!Hour, FullP!Hour, Full!Cardinality, FullP!Cardinality,
          Full!IsFiniteSet, FullP!IsFiniteSet
    <3>. QED
      BY <3>1, <3>4
  <2>. QED
    BY <2>1, <2>2, <2>3
<1>2. AppSpec => [][(trap = "time")' /\ ~(trap = "time")
                      => allData # opened.data \/ TimeP!HourPassed]_TimeP!vars
  BY TimeImplemented, SameTimeSpec, TimeTheorems, PTL DEF TimeSpec, TimeP!NoTrapBeforeDeparture
<1>3. AppSpec => []FullP!TrapNeedsFewerHours
  BY FullImplemented, SameFullSpec, FullTheorems, PTL DEF FullSpec
<1>. QED
  BY <1>1, <1>2, <1>3, QuietInvariance, ScreensInvariance, PTL DEF AppSpec, TrapNeedsPendingDownload

\* In the app too the rows keep their hour, the label announces the train the table
\* starts with, and the heading names the schedule, under the conditions TimeScreen
\* states.
THEOREM TimeScreenInApp ==
    AppSpec => [](/\ Time!RowsKeepTheirHour /\ Time!LabelLeadsTableByDay
                  /\ Time!HeadingNamesSchedule)
<1>1. TimeP!RowsKeepTheirHour => Time!RowsKeepTheirHour
  BY Zenon
  DEF Time!RowsKeepTheirHour, TimeP!RowsKeepTheirHour, Time!HourPassed, TimeP!HourPassed,
      Time!HasOpenedSheet, TimeP!HasOpenedSheet, Time!OpenedSheet, TimeP!OpenedSheet,
      Time!OpenedHours, TimeP!OpenedHours, Time!IsOpen, TimeP!IsOpen, Time!SheetFound,
      TimeP!SheetFound, Time!TimeSheet, TimeP!TimeSheet, Time!Sheet, TimeP!Sheet, Time!HasSheet,
      TimeP!HasSheet, Time!HasStation, TimeP!HasStation, Time!HasDay, TimeP!HasDay, Time!NoData,
      TimeP!NoData, Time!IsStationText, TimeP!IsStationText, Time!StationOfText,
      TimeP!StationOfText, Time!Stations, TimeP!Stations, Time!StationText, TimeP!StationText,
      Time!DirectionOfText, TimeP!DirectionOfText, Time!Directions, TimeP!Directions,
      Time!DirectionText, TimeP!DirectionText, Time!Upcoming, TimeP!Upcoming, Time!HourSet,
      TimeP!HourSet, Time!Hour, TimeP!Hour, Time!Day, TimeP!Day, Time!HourOfRow, TimeP!HourOfRow,
      Time!HHmm, TimeP!HHmm, Time!Cardinality, TimeP!Cardinality, Time!IsFiniteSet,
      TimeP!IsFiniteSet
<1>2. TimeP!LabelLeadsTableByDay => Time!LabelLeadsTableByDay
  BY Zenon
  DEF Time!LabelLeadsTableByDay, TimeP!LabelLeadsTableByDay, Time!LabelLeadsTable,
      TimeP!LabelLeadsTable, Time!NoTime, TimeP!NoTime, Time!AfterMidnight, TimeP!AfterMidnight,
      Time!HasOpenedSheet, TimeP!HasOpenedSheet, Time!IsOpen, TimeP!IsOpen, Time!SheetFound,
      TimeP!SheetFound, Time!HasSheet, TimeP!HasSheet, Time!HasStation, TimeP!HasStation,
      Time!HasDay, TimeP!HasDay, Time!NoData, TimeP!NoData, Time!IsStationText, TimeP!IsStationText,
      Time!StationOfText, TimeP!StationOfText, Time!Stations, TimeP!Stations, Time!StationText,
      TimeP!StationText, Time!DirectionOfText, TimeP!DirectionOfText, Time!Directions,
      TimeP!Directions, Time!DirectionText, TimeP!DirectionText
<1>3. TimeP!HeadingNamesSchedule => Time!HeadingNamesSchedule
  BY Zenon
  DEF Time!HeadingNamesSchedule, TimeP!HeadingNamesSchedule, Time!GmtDayName, TimeP!GmtDayName,
      Time!DayName, TimeP!DayName, Time!DayNames, TimeP!DayNames, Time!Day, TimeP!Day, Time!Hour,
      TimeP!Hour
<1>. QED
  BY <1>1, <1>2, <1>3, TimeImplemented, SameTimeSpec, TimeTheorems, PTL DEF TimeSpec

\* East of GMT the label of the app's time screen announces the first train of all
\* days' schedules until that train leaves, whatever scenes, downloads and kills do.
THEOREM AnnouncedInApp ==
    ASSUME TzOffset \in AfterMidnight..(Day - 1)
    PROVE  AppSpec => []Time!AnnouncedTrainIsNext
<1>1. TimeP!Spec => []TimeP!AnnouncedTrainIsNext
  <2>1. TimeP!EastOfGmt => (TimeP!Spec => []TimeP!AnnouncedTrainIsNext)
    BY TimeP!AnnouncedIsNext, MaxVersionAssumption, ContentAssumption, TzOffsetAssumption,
       SheetsAssumption, AscendingAssumption, ServiceDayAssumption, AppInstantsAssumption, Zenon
    DEF TimeP!Versions, Versions, TimeP!Times, Times, TimeP!IsFiniteSet, IsFiniteSet,
        TimeP!Day, Day, TimeP!Hour, Hour
  <2>2. TimeP!EastOfGmt
    BY Zenon DEF TimeP!EastOfGmt, TimeP!AfterMidnight, AfterMidnight, TimeP!Day, Day, TimeP!Hour,
       Hour
  <2>. QED
    BY <2>1, <2>2
<1>2. TimeP!AnnouncedTrainIsNext => Time!AnnouncedTrainIsNext
  BY Zenon
  DEF Time!AnnouncedTrainIsNext, TimeP!AnnouncedTrainIsNext, Time!AnnouncesNext,
      TimeP!AnnouncesNext, Time!HasOpenedSheet,
      TimeP!HasOpenedSheet, Time!IsOpen, TimeP!IsOpen, Time!SheetFound, TimeP!SheetFound,
      Time!HasSheet, TimeP!HasSheet, Time!HasStation, TimeP!HasStation, Time!HasDay,
      TimeP!HasDay, Time!NoData, TimeP!NoData, Time!IsStationText, TimeP!IsStationText,
      Time!StationOfText, TimeP!StationOfText, Time!Stations, TimeP!Stations,
      Time!StationText, TimeP!StationText, Time!DirectionOfText, TimeP!DirectionOfText,
      Time!Directions, TimeP!Directions, Time!DirectionText, TimeP!DirectionText,
      Time!ServiceHours, TimeP!ServiceHours, Time!ServiceDays, TimeP!ServiceDays,
      Time!Sheets, TimeP!Sheets, Time!RunsOn, TimeP!RunsOn, Time!Departures,
      TimeP!Departures, Time!NoTrainLeft, TimeP!NoTrainLeft, Time!GmtDayName,
      TimeP!GmtDayName, Time!DayName, TimeP!DayName, Time!DayNames, TimeP!DayNames,
      Time!DayOfWeekKey, TimeP!DayOfWeekKey, Time!HHmm, TimeP!HHmm, Time!NoTime,
      TimeP!NoTime, Time!AfterMidnight, TimeP!AfterMidnight, Time!Day, TimeP!Day,
      Time!Hour, TimeP!Hour
<1>. QED
  BY <1>1, <1>2, TimeImplemented, SameTimeSpec, PTL DEF TimeSpec

=============================================================================
